---------------------------- MODULE Spec2Model ----------------------------
(***************************************************************************)
(* A model of the Markov-chain estimation engine of mcmc_random_tool       *)
(* (model.py, posterior.py).  The engine is a library of functions over a  *)
(* batch of integer sequences: each function is an operator computed the   *)
(* way the code computes it, and each action is one call of a function.    *)
(* Floating-point probabilities are modelled as exact rationals <<p, q>>.  *)
(***************************************************************************)
EXTENDS Integers, Sequences, FiniteSets, TLC

VARIABLES
    sequences,    \* the batch of training sequences handed to the engine
    pc,           \* "input": batch read; "built" / "failed": build returned / raised;
                  \* "model": a model supplied by the caller; "returned": a call has ended
    counts,       \* build_transition_counts' counts: source -> (destination -> count)
    states,       \* build_transition_counts' sorted_states (or the caller's list)
    call,         \* the arguments of the last call: [op, alpha, states, start_state, length, seed]
    err,          \* the error the last call raised, or NoError
    trans_mat,    \* the matrix the last call returned (or was given), <<>> if none
    start_probs,  \* the start distribution the last call returned, <<>> if none
    sequence,     \* the sequence the last call returned, <<>> if none
    rng,          \* the generator state after the last call
    prob_row,     \* the probability vector the last call returned, <<>> if none
    logprob,      \* the log-probability the last call returned, <<>> if none
    sims,         \* the (sequence, log-probability) pairs the last call returned
    replay,       \* what the same call returns when run a second time, from a
                  \* generator in the same state (NoReplay if the call draws nothing)
    file,         \* the input file of the command line: its characters, or NoFile
    written,      \* the output files the command line has written
    exit_status,  \* what main returned, NotExited before it has
    printed       \* the result the predict command printed (NoPrint otherwise)

vars == <<sequences, pc, counts, states, call, err, trans_mat, start_probs, sequence, rng,
          prob_row, logprob, sims, replay, file, written, exit_status, printed>>

----------------------------------------------------------------------------
(* Bounds of the model *)

MaxState == 2       \* training states are 1..MaxState
MaxSeqs == 2        \* a batch has at most MaxSeqs sequences
MaxTokens == 4      \* the sequences of a batch hold at most MaxTokens states in all
MaxSeed == 1        \* generator seeds are 0..MaxSeed
HighWeight == 2     \* a caller-supplied matrix row has weights 1 or HighWeight, normalised
MaxGenLen == 4      \* requested lengths are 0..MaxGenLen
MaxScoredLen == 3   \* scored sequences hold at most MaxScoredLen states
MaxVecLen == 3      \* a concentration vector has at most MaxVecLen entries
MaxPredLen == 2     \* posterior-predictive sequences of 0..MaxPredLen states are asked for
MaxSamples == 2     \* 0..MaxSamples posterior-predictive samples are asked for
MaxChars == 5       \* a generated input file holds at most MaxChars characters

----------------------------------------------------------------------------
(* Errors: the spec's kinds, with the message the code raises *)

NoError == "none"
EmptyInputError == "No sequences provided"
NoStatesError == "No valid states found in sequences"
InvalidAlphaError == "Alpha must be positive"
InvalidLengthError == "Length must be positive"
UnknownStateError == "Start state not found in states"
NegativeProbabilityFailure == "AssertionError: Negative probabilities found"
RowSumFailure == "AssertionError: Rows do not sum to 1"
StartSumFailure == "AssertionError: Start probabilities do not sum to 1"

----------------------------------------------------------------------------
(* Exact arithmetic standing for float64: <<p, q>> is p/q, q >= 0, in      *)
(* lowest terms; <<1,0>>, <<-1,0>> are +inf, -inf and <<0,0>> is nan.      *)

Abs(x) == IF x < 0 THEN -x ELSE x
Sign(x) == IF x < 0 THEN -1 ELSE IF x = 0 THEN 0 ELSE 1

RECURSIVE GCD(_, _)
GCD(a, b) == IF b = 0 THEN a ELSE GCD(b, a % b)

Rat(p, q) ==
    IF q = 0 THEN <<Sign(p), 0>>
    ELSE LET g == GCD(Abs(p), Abs(q))
         IN  <<Sign(q) * (p \div g), Abs(q) \div g>>

RInt(k) == <<k, 1>>
RZero == RInt(0)
ROne == RInt(1)
NaN == <<0, 0>>
IsNaN(a) == a = NaN
IsFinite(a) == a[2] # 0

RAdd(a, b) ==
    IF IsNaN(a) \/ IsNaN(b) THEN NaN
    ELSE IF a[2] = 0 /\ b[2] = 0 THEN (IF a = b THEN a ELSE NaN)
    ELSE IF a[2] = 0 THEN a
    ELSE IF b[2] = 0 THEN b
    ELSE Rat(a[1] * b[2] + b[1] * a[2], a[2] * b[2])

RMul(a, b) ==
    IF IsNaN(a) \/ IsNaN(b) THEN NaN
    ELSE IF a[2] = 0 \/ b[2] = 0 THEN <<Sign(a[1]) * Sign(b[1]), 0>>
    ELSE Rat(a[1] * b[1], a[2] * b[2])

RDiv(a, b) ==
    IF IsNaN(a) \/ IsNaN(b) THEN NaN
    ELSE IF b[2] = 0 THEN (IF a[2] = 0 THEN NaN ELSE RZero)
    ELSE IF a[2] = 0 THEN (IF b[1] < 0 THEN <<-a[1], 0>> ELSE a)
    ELSE Rat(a[1] * b[2], a[2] * b[1])

\* a < b and a <= b as float comparison: false when either side is nan
RLt(a, b) ==
    /\ ~IsNaN(a) /\ ~IsNaN(b)
    /\ IF a[2] = 0 /\ b[2] = 0 THEN a[1] < b[1]
       ELSE IF a[2] = 0 THEN a[1] < 0
       ELSE IF b[2] = 0 THEN b[1] > 0
       ELSE a[1] * b[2] < b[1] * a[2]
REq(a, b) == ~IsNaN(a) /\ ~IsNaN(b) /\ a = b
RLe(a, b) == RLt(a, b) \/ REq(a, b)

RECURSIVE RSum(_)
RSum(v) == IF v = <<>> THEN RZero ELSE RAdd(v[1], RSum(Tail(v)))

----------------------------------------------------------------------------
(* build_transition_counts *)

EmptyCounts == <<>>

\* mutant: `= 1` written for `+= 1`
IncrementOverwrite(c, s, d) ==
    LET row  == IF s \in DOMAIN c THEN c[s] ELSE <<>>
        row2 == [k \in DOMAIN row \cup {d} |-> IF k = d THEN 1 ELSE row[k]]
    IN  [k \in DOMAIN c \cup {s} |-> IF k = s THEN row2 ELSE c[k]]

\* counts[current_state][next_state] += 1 on a defaultdict(Counter)
Increment(c, s, d) ==
    LET row  == IF s \in DOMAIN c THEN c[s] ELSE <<>>
        row2 == [k \in DOMAIN row \cup {d} |->
                    IF k = d THEN (IF d \in DOMAIN row THEN row[d] + 1 ELSE 1)
                    ELSE row[k]]
    IN  [k \in DOMAIN c \cup {s} |-> IF k = s THEN row2 ELSE c[k]]

\* mutant: range(len(seq) - 2)
LastPairShort(seq) == Len(seq) - 2

\* the last position the inner loop visits: range(len(seq) - 1)
LastPair(seq) == Len(seq) - 1

\* the inner loop over the adjacent pairs of one sequence
RECURSIVE CountPairs(_, _, _)
CountPairs(acc, seq, i) ==
    IF i > LastPair(seq) THEN acc
    ELSE CountPairs([counts |-> Increment(acc.counts, seq[i], seq[i + 1]),
                     states |-> acc.states \cup {seq[i], seq[i + 1]}], seq, i + 1)

\* mutant: `if len(seq) <= 2: continue`
SkippedShort(seq) == Len(seq) <= 2

\* `if len(seq) < 2: continue`
Skipped(seq) == Len(seq) < 2

\* the outer loop over the sequences
RECURSIVE CountSequences(_, _, _)
CountSequences(acc, seqs, k) ==
    IF k > Len(seqs) THEN acc
    ELSE CountSequences(IF Skipped(seqs[k]) THEN acc ELSE CountPairs(acc, seqs[k], 1),
                        seqs, k + 1)

SetMin(S) == CHOOSE m \in S : \A x \in S : m <= x

\* mutant: list(states) for sorted(states), the set coming out in decreasing order
RECURSIVE Unsorted(_)
Unsorted(S) ==
    IF S = {} THEN <<>>
    ELSE LET m == CHOOSE x \in S : \A y \in S : y <= x IN <<m>> \o Unsorted(S \ {m})

\* sorted(states): the elements of a set in increasing order
RECURSIVE Sorted(_)
Sorted(S) == IF S = {} THEN <<>> ELSE LET m == SetMin(S) IN <<m>> \o Sorted(S \ {m})

build_transition_counts(seqs) ==
    IF seqs = <<>> THEN [err |-> EmptyInputError, counts |-> EmptyCounts, states |-> <<>>]
    ELSE LET acc == CountSequences([counts |-> EmptyCounts, states |-> {}], seqs, 1)
         IN  IF acc.states = {}
             THEN [err |-> NoStatesError, counts |-> EmptyCounts, states |-> <<>>]
             ELSE [err |-> NoError, counts |-> acc.counts, states |-> Sorted(acc.states)]

----------------------------------------------------------------------------
(* Shared helpers of the estimators *)

\* {state: i for i, state in enumerate(states)}: a repeated state keeps its last index
state_to_idx(st) ==
    [s \in {st[i] : i \in 1..Len(st)} |->
        CHOOSE i \in 1..Len(st) : st[i] = s /\ \A j \in 1..Len(st) : st[j] = s => j <= i]

\* sum(state_counts.values())
RECURSIVE SumValues(_)
SumValues(f) ==
    IF DOMAIN f = {} THEN 0
    ELSE LET k == CHOOSE x \in DOMAIN f : TRUE
         IN  f[k] + SumValues([x \in DOMAIN f \ {k} |-> f[x]])

\* mutant: `alpha < 0`
AlphaRejectedStrict(alpha) == RLt(alpha, RZero)

\* `alpha <= 0`
AlphaRejected(alpha) == RLe(alpha, RZero)

----------------------------------------------------------------------------
(* transition_matrix_from_counts *)

\* mutant: total = sum(state_counts.values()) + alpha
RowTotalUnscaled(sc, n, alpha) == RAdd(RInt(SumValues(sc)), alpha)

\* total = sum(state_counts.values()) + alpha * n
RowTotal(sc, n, alpha) == RAdd(RInt(SumValues(sc)), RMul(alpha, RInt(n)))

\* mutant: count / total stored for an observed destination
ObservedEntriesUnsmoothed(sc, st, alpha, total) ==
    LET idx == state_to_idx(st)
    IN  [j \in 1..Len(st) |->
            IF \E d \in DOMAIN sc : d \in DOMAIN idx /\ idx[d] = j
            THEN LET d == CHOOSE d \in DOMAIN sc : d \in DOMAIN idx /\ idx[d] = j
                 IN  RDiv(RInt(sc[d]), total)
            ELSE RZero]

\* the loop over state_counts.items(): row i starts as zeros and gets
\* (count + alpha) / total at the column of every destination that is in states
ObservedEntries(sc, st, alpha, total) ==
    LET idx == state_to_idx(st)
    IN  [j \in 1..Len(st) |->
            IF \E d \in DOMAIN sc : d \in DOMAIN idx /\ idx[d] = j
            THEN LET d == CHOOSE d \in DOMAIN sc : d \in DOMAIN idx /\ idx[d] = j
                 IN  RDiv(RAdd(RInt(sc[d]), alpha), total)
            ELSE RZero]

\* mutant: the fill loop left out
FillMissingSkipped(row, alpha, total) == row

\* "Fill in missing transitions with alpha smoothing": if matrix[i, j] == 0
FillMissing(row, alpha, total) ==
    [j \in 1..Len(row) |-> IF REq(row[j], RZero) THEN RDiv(alpha, total) ELSE row[j]]

\* matrix[i, :] = 1.0 / n
UniformRow(n) == [j \in 1..n |-> RDiv(ROne, RInt(n))]

\* counts[state] on the defaultdict(Counter): a key that is missing is
\* created with an empty Counter
DefaultRead(c, s) == [k \in DOMAIN c \cup {s} |-> IF k \in DOMAIN c THEN c[k] ELSE <<>>]

\* mutant: counts[state] read without the membership test
CountsAfterRowUnguarded(c, s) == DefaultRead(c, s)

\* `if state in counts: state_counts = counts[state]`: the mapping after
\* the pass for the state s
CountsAfterRow(c, s) == IF s \in DOMAIN c THEN DefaultRead(c, s) ELSE c

\* the mapping after the passes for the states st[i], ..., st[n]
RECURSIVE CountsAfterRows(_, _, _)
CountsAfterRows(c, st, i) ==
    IF i > Len(st) THEN c ELSE CountsAfterRows(CountsAfterRow(c, st[i]), st, i + 1)

\* one pass of `for i, state in enumerate(states)`
MatrixRow(c, st, alpha, i) ==
    IF st[i] \in DOMAIN c
    THEN LET total == RowTotal(c[st[i]], Len(st), alpha)
         IN  FillMissing(ObservedEntries(c[st[i]], st, alpha, total), alpha, total)
    ELSE UniformRow(Len(st))

\* np.all(matrix >= 0)
AllNonNegative(m) == \A i \in 1..Len(m) : \A j \in 1..Len(m[i]) : RLe(RZero, m[i][j])
\* np.allclose(matrix.sum(axis=1), 1.0)
RowsSumToOne(m) == \A i \in 1..Len(m) : REq(RSum(m[i]), ROne)

transition_matrix_from_counts(c, st, alpha) ==
    IF AlphaRejected(alpha) THEN [err |-> InvalidAlphaError, matrix |-> <<>>]
    ELSE LET m == [i \in 1..Len(st) |-> MatrixRow(c, st, alpha, i)]
         IN  IF ~AllNonNegative(m) THEN [err |-> NegativeProbabilityFailure, matrix |-> <<>>]
             ELSE IF ~RowsSumToOne(m) THEN [err |-> RowSumFailure, matrix |-> <<>>]
             ELSE [err |-> NoError, matrix |-> m]

----------------------------------------------------------------------------
(* empirical_start_distribution *)

\* the loop over sequences: start_counts[state_to_idx[first_state]] += 1
RECURSIVE StartCounts(_, _, _, _)
StartCounts(acc, seqs, st, k) ==
    IF k > Len(seqs) THEN acc
    ELSE LET idx == state_to_idx(st)
             seq == seqs[k]
         IN  StartCounts(IF seq # <<>> /\ seq[1] \in DOMAIN idx
                         THEN [acc EXCEPT ![idx[seq[1]]] = @ + 1]
                         ELSE acc,
                         seqs, st, k + 1)

RECURSIVE SumSeq(_)
SumSeq(v) == IF v = <<>> THEN 0 ELSE v[1] + SumSeq(Tail(v))

\* mutant: probs = (start_counts + alpha) / (start_counts.sum() + alpha)
SmoothedStartsUnscaled(sc, alpha) ==
    LET total == RAdd(RInt(SumSeq(sc)), alpha)
    IN  [i \in 1..Len(sc) |-> RDiv(RAdd(RInt(sc[i]), alpha), total)]

\* probs = (start_counts + alpha) / (start_counts.sum() + alpha * n)
SmoothedStarts(sc, alpha) ==
    LET total == RAdd(RInt(SumSeq(sc)), RMul(alpha, RInt(Len(sc))))
    IN  [i \in 1..Len(sc) |-> RDiv(RAdd(RInt(sc[i]), alpha), total)]

empirical_start_distribution(seqs, st, alpha) ==
    IF AlphaRejected(alpha) THEN [err |-> InvalidAlphaError, probs |-> <<>>]
    ELSE IF seqs = <<>> THEN [err |-> EmptyInputError, probs |-> <<>>]
    ELSE LET sc == StartCounts([i \in 1..Len(st) |-> 0], seqs, st, 1)
             probs == SmoothedStarts(sc, alpha)
         IN  IF \E i \in 1..Len(probs) : ~RLe(RZero, probs[i])
             THEN [err |-> NegativeProbabilityFailure, probs |-> <<>>]
             ELSE IF ~REq(RSum(probs), ROne) THEN [err |-> StartSumFailure, probs |-> <<>>]
             ELSE [err |-> NoError, probs |-> probs]

----------------------------------------------------------------------------
(* The generator: np.random.Generator is a deterministic stream, here a    *)
(* small full-period congruential one.  `draws` counts the variates taken. *)

NoRng == [state |-> -1, draws |-> 0]
default_rng(seed) == [state |-> seed, draws |-> 0]
\* mutant: the generator handed in is ignored and a fresh one is made every time
ResolveRngAlwaysFresh(r, fresh) == fresh

\* if rng is None: rng = np.random.default_rng(); fresh is the generator
\* default_rng() would make, seeded from the operating system
ResolveRng(r, fresh) == IF r = NoRng THEN fresh ELSE r

Advance(r) == [state |-> (5 * r.state + 3) % 16, draws |-> r.draws + 1]

\* one Gamma(shape, 1) variate: exactly 0 for shape = 0, drawing nothing;
\* for shape > 0 a positive value that grows with the shape (the shape times
\* 1, 2 or 3, as the generator's next state decides)
GammaVariate(shape, r) ==
    IF REq(shape, RZero) THEN [value |-> RZero, rng |-> r]
    ELSE [value |-> RMul(shape, RInt(1 + (Advance(r).state % 3))), rng |-> Advance(r)]

\* rng.gamma(alpha_vec, 1.0): one variate per component, in order
RECURSIVE GammaVector(_, _, _)
GammaVector(alpha_vec, r, acc) ==
    IF Len(acc) = Len(alpha_vec) THEN [samples |-> acc, rng |-> r]
    ELSE LET g == GammaVariate(alpha_vec[Len(acc) + 1], r)
         IN  GammaVector(alpha_vec, g.rng, Append(acc, g.value))

----------------------------------------------------------------------------
(* posterior.py *)

NegativeConcentrationError == "Alpha parameters must be non-negative"

\* mutant: np.all for np.any, only a vector of negative entries is refused
AllNegative(alpha_vec) == \A i \in 1..Len(alpha_vec) : RLt(alpha_vec[i], RZero)

\* np.any(alpha_vec < 0)
AnyNegative(alpha_vec) == \E i \in 1..Len(alpha_vec) : RLt(alpha_vec[i], RZero)

\* mutant: np.any for np.all, one zero entry is enough for the uniform row
AnyZero(alpha_vec) == \E i \in 1..Len(alpha_vec) : REq(alpha_vec[i], RZero)

\* np.all(alpha_vec == 0)
AllZero(alpha_vec) == \A i \in 1..Len(alpha_vec) : REq(alpha_vec[i], RZero)

\* samples / samples.sum(), for the samples g and the generator they left
NormalisedSamples(g) ==
    [err |-> NoError,
     row |-> [i \in 1..Len(g.samples) |-> RDiv(g.samples[i], RSum(g.samples))],
     rng |-> g.rng]

dirichlet_sample_row(alpha_vec, r) ==
    IF AnyNegative(alpha_vec)
    THEN [err |-> NegativeConcentrationError, row |-> <<>>, rng |-> r]
    ELSE IF AllZero(alpha_vec)
    THEN [err |-> NoError, row |-> UniformRow(Len(alpha_vec)), rng |-> r]
    ELSE NormalisedSamples(GammaVector(alpha_vec, r, <<>>))

\* mutant: the counts are never added, every row is drawn from the flat prior
PosteriorConcentrationFlat(c, st, alpha, i) == [j \in 1..Len(st) |-> alpha]

\* alpha_vec = np.full(n, alpha); alpha_vec[j] += count for the destinations in states
PosteriorConcentration(c, st, alpha, i) ==
    LET idx == state_to_idx(st)
    IN  IF st[i] \in DOMAIN c
        THEN [j \in 1..Len(st) |->
                IF \E d \in DOMAIN c[st[i]] : d \in DOMAIN idx /\ idx[d] = j
                THEN LET d == CHOOSE d \in DOMAIN c[st[i]] : d \in DOMAIN idx /\ idx[d] = j
                     IN  RAdd(alpha, RInt(c[st[i]][d]))
                ELSE alpha]
        ELSE [j \in 1..Len(st) |-> alpha]

\* the loop over the rows, threading the one generator through the draws
RECURSIVE PosteriorRows(_, _, _, _, _)
RECURSIVE StoreRow(_, _, _, _, _)

\* trans_mat[i] = d.row for the row d just drawn, then the next row
StoreRow(c, st, alpha, acc, d) ==
    IF d.err # NoError THEN [err |-> d.err, matrix |-> <<>>, rng |-> d.rng]
    ELSE PosteriorRows(c, st, alpha, d.rng, Append(acc, d.row))

PosteriorRows(c, st, alpha, r, acc) ==
    IF Len(acc) = Len(st) THEN [err |-> NoError, matrix |-> acc, rng |-> r]
    ELSE StoreRow(c, st, alpha, acc,
                  dirichlet_sample_row(PosteriorConcentration(c, st, alpha, Len(acc) + 1), r))

\* r is the generator actually drawn from (the caller's, or a fresh one when
\* the caller passed None)
\* the two assertions on the sampled matrix m
CheckedSample(m) ==
    IF m.err # NoError THEN m
    ELSE IF ~AllNonNegative(m.matrix)
    THEN [err |-> NegativeProbabilityFailure, matrix |-> <<>>, rng |-> m.rng]
    ELSE IF ~RowsSumToOne(m.matrix)
    THEN [err |-> RowSumFailure, matrix |-> <<>>, rng |-> m.rng]
    ELSE m

\* the rows sampled from what build_transition_counts returned, or its error
SampleFromCounts(b, st, alpha, r) ==
    IF b.err # NoError THEN [err |-> b.err, matrix |-> <<>>, rng |-> r]
    ELSE CheckedSample(PosteriorRows(b.counts, st, alpha, r, <<>>))

sample_transition_matrix_posterior(seqs, st, alpha, r) ==
    IF AlphaRejected(alpha) THEN [err |-> InvalidAlphaError, matrix |-> <<>>, rng |-> r]
    ELSE IF seqs = <<>> THEN [err |-> EmptyInputError, matrix |-> <<>>, rng |-> r]
    ELSE SampleFromCounts(build_transition_counts(seqs), st, alpha, r)

----------------------------------------------------------------------------
(* argmax_sequence *)

\* mutant: `>=` for `>` in the scan, so the last index holding the maximum
RECURSIVE ArgMaxFromLast(_, _, _)
ArgMaxFromLast(row, j, best) ==
    IF j > Len(row) THEN best
    ELSE ArgMaxFromLast(row, j + 1, IF RLe(row[best], row[j]) THEN j ELSE best)

\* np.argmax(row): the first index holding the maximum
RECURSIVE ArgMaxFrom(_, _, _)
ArgMaxFrom(row, j, best) ==
    IF j > Len(row) THEN best
    ELSE ArgMaxFrom(row, j + 1, IF RLt(row[best], row[j]) THEN j ELSE best)

ArgMax(row) == ArgMaxFrom(row, 2, 1)

\* mutant: `current_state = next_state` left out, every step reads the start's row
RECURSIVE GreedyWalkFromStart(_, _, _, _)
GreedyWalkFromStart(st, m, seq, length) ==
    IF Len(seq) >= length THEN seq
    ELSE LET current_idx == state_to_idx(st)[seq[1]]
             next_idx == ArgMax(m[current_idx])
         IN  GreedyWalkFromStart(st, m, Append(seq, st[next_idx]), length)

\* the loop `for _ in range(length - 1)`
RECURSIVE GreedyWalk(_, _, _, _)
GreedyWalk(st, m, seq, length) ==
    IF Len(seq) >= length THEN seq
    ELSE LET current_idx == state_to_idx(st)[seq[Len(seq)]]
             next_idx == ArgMax(m[current_idx])
         IN  GreedyWalk(st, m, Append(seq, st[next_idx]), length)

argmax_sequence(start_state, st, m, length) ==
    IF length < 1 THEN [err |-> InvalidLengthError, sequence |-> <<>>]
    ELSE IF start_state \notin DOMAIN state_to_idx(st)
    THEN [err |-> UnknownStateError, sequence |-> <<>>]
    ELSE [err |-> NoError, sequence |-> GreedyWalk(st, m, <<start_state>>, length)]

----------------------------------------------------------------------------
(* sample_sequence *)

ShapeMismatchError == "Transition matrix shape does not match the states"
ChoiceError == "rng.choice rejected its arguments"

\* rng.random(): one uniform variate in [0, 1), the generator's next state scaled
Uniform(r) == [value |-> Rat(Advance(r).state, 16), rng |-> Advance(r)]

\* cdf.searchsorted(u, side='right') over cdf = p.cumsum(): the first index
\* whose cumulative probability exceeds u
RECURSIVE SearchSorted(_, _, _, _)
SearchSorted(p, u, j, cum) ==
    IF j >= Len(p) THEN j
    ELSE IF RLt(u, RAdd(cum, p[j])) THEN j
    ELSE SearchSorted(p, u, j + 1, RAdd(cum, p[j]))

\* rng.choice(n, p=p): numpy rejects an empty population, a p of another size,
\* a negative or nan entry and a p that does not sum to 1, before drawing
Choice(n, p, r) ==
    IF \/ n <= 0
       \/ Len(p) # n
       \/ \E j \in 1..Len(p) : ~RLe(RZero, p[j])
       \/ ~REq(RSum(p), ROne)
    THEN [err |-> ChoiceError, idx |-> 0, rng |-> r]
    ELSE LET u == Uniform(r)
         IN  [err |-> NoError, idx |-> SearchSorted(p, u.value, 1, RZero), rng |-> u.rng]

\* mutant: `<= 0` slips to `< 0`, so that a length of 0 is accepted
LengthRejectedStrict(length) == length < 0

\* if length < 1
LengthRejected(length) == length < 1

\* trans_mat.shape
ShapeOf(m) == <<Len(m), IF m = <<>> THEN 0 ELSE Len(m[1])>>

\* mutant: only the matrix is compared with n, the start distribution is not
ShapeMismatchMatrixOnly(n, sp, m) == ShapeOf(m) # <<n, n>>

\* len(start_probs) != n or trans_mat.shape != (n, n)
ShapeMismatch(n, sp, m) == Len(sp) # n \/ ShapeOf(m) # <<n, n>>

RECURSIVE SampleRemaining(_, _, _, _, _, _)

\* mutant: current_idx is not updated, every draw uses the first state's row
AppendDrawnFromStart(st, m, seq, current_idx, length, c) ==
    IF c.err # NoError THEN [err |-> c.err, sequence |-> <<>>, rng |-> c.rng]
    ELSE SampleRemaining(st, m, Append(seq, st[c.idx]),
                         IF seq = <<>> THEN c.idx ELSE current_idx, length, c.rng)

\* sequence.append(idx_to_state[next_idx]); current_idx = next_idx, for the
\* draw c just made, then the next draw
AppendDrawn(st, m, seq, current_idx, length, c) ==
    IF c.err # NoError THEN [err |-> c.err, sequence |-> <<>>, rng |-> c.rng]
    ELSE SampleRemaining(st, m, Append(seq, st[c.idx]), c.idx, length, c.rng)

\* the loop over range(length - 1): one draw from the current state's row each
SampleRemaining(st, m, seq, current_idx, length, r) ==
    IF Len(seq) >= length THEN [err |-> NoError, sequence |-> seq, rng |-> r]
    ELSE AppendDrawn(st, m, seq, current_idx, length, Choice(Len(st), m[current_idx], r))

\* r is the generator actually drawn from (see ResolveRng)
sample_sequence(st, sp, m, length, r) ==
    IF LengthRejected(length)
    THEN [err |-> InvalidLengthError, sequence |-> <<>>, rng |-> r]
    ELSE IF ShapeMismatch(Len(st), sp, m)
    THEN [err |-> ShapeMismatchError, sequence |-> <<>>, rng |-> r]
    ELSE AppendDrawn(st, m, <<>>, 0, length, Choice(Len(st), sp, r))

----------------------------------------------------------------------------
(* logprob_of_sequence.  A log-probability is kept as the number it is the  *)
(* logarithm of: adding logarithms multiplies these numbers, log 0 is -inf  *)
(* and the logarithm of a negative number is nan.                          *)

IndexFailure == "IndexError"
KeyFailure == "KeyError"

Log(x) == [log_of |-> IF RLt(x, RZero) THEN NaN ELSE x]
LogAdd(a, b) == [log_of |-> RMul(a.log_of, b.log_of)]
NegInf == Log(RZero)
LogOfOne == Log(ROne)

\* mutant: only the first state of the sequence is looked up
HasUnknownFirstState(seq, st) == seq[1] \notin DOMAIN state_to_idx(st)

\* for state in seq: if state not in state_to_idx
HasUnknownState(seq, st) == \E i \in 1..Len(seq) : seq[i] \notin DOMAIN state_to_idx(st)

\* mutant: the loop stops one pair early
LastTransitionShort(seq) == Len(seq) - 2

\* range(len(seq) - 1)
LastTransition(seq) == Len(seq) - 1

\* the loop over the consecutive pairs, from pair i on
RECURSIVE LogTransitions(_, _, _, _, _)
LogTransitions(seq, st, m, i, log_prob) ==
    IF i > LastTransition(seq) THEN [err |-> NoError, logprob |-> log_prob]
    ELSE LET idx == state_to_idx(st)
         IN  IF seq[i] \notin DOMAIN idx \/ seq[i + 1] \notin DOMAIN idx
             THEN [err |-> KeyFailure, logprob |-> <<>>]
             ELSE IF idx[seq[i]] > Len(m) \/ idx[seq[i + 1]] > Len(m[idx[seq[i]]])
             THEN [err |-> IndexFailure, logprob |-> <<>>]
             ELSE LogTransitions(seq, st, m, i + 1,
                                 LogAdd(log_prob, Log(m[idx[seq[i]]][idx[seq[i + 1]]])))

logprob_of_sequence(seq, st, sp, m) ==
    IF seq = <<>> THEN [err |-> NoError, logprob |-> LogOfOne]
    ELSE IF HasUnknownState(seq, st) THEN [err |-> NoError, logprob |-> NegInf]
    ELSE IF state_to_idx(st)[seq[1]] > Len(sp) THEN [err |-> IndexFailure, logprob |-> <<>>]
    ELSE LogTransitions(seq, st, m, 1, Log(sp[state_to_idx(st)[seq[1]]]))

----------------------------------------------------------------------------
(* posterior_predictive_sequences *)

InvalidSampleCountError == "Number of samples must be positive"

\* mutant: `< 1` slips to `< 0`, so that a request for no sample is accepted
SamplesRejectedStrict(nsamples) == nsamples < 0

\* if nsamples < 1
SamplesRejected(nsamples) == nsamples < 1

\* mutant: the loop runs once less than asked
SamplesLeftShort(acc, nsamples) == Len(acc) < nsamples - 1

\* for i in range(nsamples)
SamplesLeft(acc, nsamples) == Len(acc) < nsamples

RECURSIVE PredictiveLoop(_, _, _, _, _, _, _, _)

\* sims.append((seq, lp)) for the sequence q and its log-probability lp
AppendPair(seqs, st, sp, alpha, length, nsamples, acc, q, lp) ==
    IF lp.err # NoError THEN [err |-> lp.err, sims |-> <<>>, rng |-> q.rng]
    ELSE PredictiveLoop(seqs, st, sp, alpha, length, nsamples, q.rng,
                        Append(acc, <<q.sequence, lp.logprob>>))

\* the sequence q scored under the point estimate instead of the matrix t
ScoreSequenceUnderEstimate(seqs, st, sp, alpha, length, nsamples, acc, t, q) ==
    IF q.err # NoError THEN [err |-> q.err, sims |-> <<>>, rng |-> q.rng]
    ELSE AppendPair(seqs, st, sp, alpha, length, nsamples, acc, q,
                    logprob_of_sequence(q.sequence, st, sp,
                        transition_matrix_from_counts(build_transition_counts(seqs).counts,
                                                      st, alpha).matrix))

\* lp = logprob_of_sequence(seq, states, start_probs, trans_mat) for the
\* sequence q sampled from the matrix t
ScoreSequence(seqs, st, sp, alpha, length, nsamples, acc, t, q) ==
    IF q.err # NoError THEN [err |-> q.err, sims |-> <<>>, rng |-> q.rng]
    ELSE AppendPair(seqs, st, sp, alpha, length, nsamples, acc, q,
                    logprob_of_sequence(q.sequence, st, sp, t.matrix))

\* seq = sample_sequence(states, start_probs, trans_mat, length, rng) for the
\* matrix t sampled from the posterior
SimulateSequence(seqs, st, sp, alpha, length, nsamples, acc, t) ==
    IF t.err # NoError THEN [err |-> t.err, sims |-> <<>>, rng |-> t.rng]
    ELSE ScoreSequence(seqs, st, sp, alpha, length, nsamples, acc, t,
                       sample_sequence(st, sp, t.matrix, length, t.rng))

\* the loop: a matrix from the posterior, a sequence from that matrix, its
\* log-probability under that matrix, all drawn from the one generator
PredictiveLoop(seqs, st, sp, alpha, length, nsamples, r, acc) ==
    IF ~SamplesLeft(acc, nsamples) THEN [err |-> NoError, sims |-> acc, rng |-> r]
    ELSE SimulateSequence(seqs, st, sp, alpha, length, nsamples, acc,
                          sample_transition_matrix_posterior(seqs, st, alpha, r))

\* r is the generator actually drawn from (see ResolveRng)
posterior_predictive_sequences(seqs, st, sp, alpha, length, nsamples, r) ==
    IF AlphaRejected(alpha) THEN [err |-> InvalidAlphaError, sims |-> <<>>, rng |-> r]
    ELSE IF LengthRejected(length) THEN [err |-> InvalidLengthError, sims |-> <<>>, rng |-> r]
    ELSE IF SamplesRejected(nsamples)
    THEN [err |-> InvalidSampleCountError, sims |-> <<>>, rng |-> r]
    ELSE PredictiveLoop(seqs, st, sp, alpha, length, nsamples, r, <<>>)

----------------------------------------------------------------------------
(* io_utils.py: parse_sequences_from_file.  A file is the sequence of its   *)
(* characters (one-character strings); NoFile is the path without a file.  *)

RangeOrderError == "valid_min cannot be greater than valid_max"
NegativeMinError == "valid_min must be non-negative"
FileNotFoundError == "Input file not found"
NoValidSequencesError == "No valid sequences found in input file"
NoFile == [exists |-> FALSE, chars |-> <<>>]
File(chars) == [exists |-> TRUE, chars |-> chars]

\* what str.strip() removes and what \s matches
Whitespace == {" ", "\t", "\n", "\r"}
\* the separators of re.split(r"[,\s]+", line)
Separators == Whitespace \cup {","}

DigitValue ==
    ("0" :> 0) @@ ("1" :> 1) @@ ("2" :> 2) @@ ("3" :> 3) @@ ("4" :> 4) @@
    ("5" :> 5) @@ ("6" :> 6) @@ ("7" :> 7) @@ ("8" :> 8) @@ ("9" :> 9)
IsDigit(c) == c \in DOMAIN DigitValue

\* for line in f: the lines of f from character i on, each with its newline;
\* cur is the line being read.  The file is opened in text mode: "\r" and
\* "\r\n" end a line as "\n" does.
RECURSIVE ReadLines(_, _, _)
ReadLines(f, i, cur) ==
    IF i > Len(f) THEN (IF cur = <<>> THEN <<>> ELSE <<cur>>)
    ELSE IF f[i] = "\r" /\ i < Len(f) /\ f[i + 1] = "\n" THEN ReadLines(f, i + 1, cur)
    ELSE IF f[i] \in {"\n", "\r"} THEN <<Append(cur, "\n")>> \o ReadLines(f, i + 1, <<>>)
    ELSE ReadLines(f, i + 1, Append(cur, f[i]))

\* line.strip()
RECURSIVE LStrip(_)
LStrip(s) == IF s # <<>> /\ s[1] \in Whitespace THEN LStrip(Tail(s)) ELSE s
RECURSIVE RStrip(_)
RStrip(s) ==
    IF s # <<>> /\ s[Len(s)] \in Whitespace THEN RStrip(SubSeq(s, 1, Len(s) - 1)) ELSE s
Strip(s) == RStrip(LStrip(s))

\* re.split(r"[,\s]+", s) from character i on: a run of separators ends the
\* token cur, so a leading or trailing run leaves an empty token
RECURSIVE Split(_, _, _, _)
Split(s, i, cur, in_run) ==
    IF i > Len(s) THEN <<cur>>
    ELSE IF s[i] \in Separators
         THEN IF in_run THEN Split(s, i + 1, <<>>, TRUE)
              ELSE <<cur>> \o Split(s, i + 1, <<>>, TRUE)
         ELSE Split(s, i + 1, Append(cur, s[i]), FALSE)

\* int(token): an optional sign, then digits, single underscores allowed
\* between digits
Unsigned(token) ==
    IF token # <<>> /\ token[1] \in {"+", "-"} THEN Tail(token) ELSE token
IsIntLiteral(token) ==
    LET body == Unsigned(token)
    IN  /\ body # <<>>
        /\ IsDigit(body[1]) /\ IsDigit(body[Len(body)])
        /\ \A i \in 1..Len(body) : IsDigit(body[i]) \/ body[i] = "_"
        /\ \A i \in 1..(Len(body) - 1) : ~(body[i] = "_" /\ body[i + 1] = "_")
RECURSIVE DigitsValue(_, _)
DigitsValue(body, acc) ==
    IF body = <<>> THEN acc
    ELSE DigitsValue(Tail(body), IF body[1] = "_" THEN acc ELSE 10 * acc + DigitValue[body[1]])
int(token) ==
    IF ~IsIntLiteral(token) THEN [err |-> "ValueError", value |-> 0]
    ELSE [err |-> NoError,
          value |-> (IF token[1] = "-" THEN -1 ELSE 1) * DigitsValue(Unsigned(token), 0)]

\* valid_min < value <= valid_max
InRangeAboveMin(value, valid_min, valid_max) == valid_min < value /\ value <= valid_max

\* if valid_min <= value <= valid_max
InRange(value, valid_min, valid_max) == valid_min <= value /\ value <= valid_max

\* for token in tokens: the values appended to seq
RECURSIVE ParseTokens(_, _, _, _)
ParseTokens(tokens, valid_min, valid_max, seq) ==
    IF tokens = <<>> THEN seq
    ELSE ParseTokens(Tail(tokens), valid_min, valid_max,
             IF int(tokens[1]).err = NoError
                /\ InRange(int(tokens[1]).value, valid_min, valid_max)
             THEN Append(seq, int(tokens[1]).value) ELSE seq)

\* if len(seq) >= 1
KeptFromOne(seq) == Len(seq) >= 1

\* if len(seq) >= 2
Kept(seq) == Len(seq) >= 2

AppendKept(acc, seq) == IF Kept(seq) THEN Append(acc, seq) ELSE acc

\* the loop over the lines: blank lines skipped, the others split and parsed
RECURSIVE ParseLines(_, _, _, _)
ParseLines(lines, valid_min, valid_max, acc) ==
    IF lines = <<>> THEN acc
    ELSE ParseLines(Tail(lines), valid_min, valid_max,
             IF Strip(lines[1]) = <<>> THEN acc
             ELSE AppendKept(acc, ParseTokens(Split(Strip(lines[1]), 1, <<>>, FALSE),
                                              valid_min, valid_max, <<>>)))

NonEmptyResult(seqs) ==
    IF seqs = <<>> THEN [err |-> NoValidSequencesError, sequences |-> <<>>]
    ELSE [err |-> NoError, sequences |-> seqs]

parse_sequences_from_file(f, valid_min, valid_max) ==
    IF valid_min > valid_max THEN [err |-> RangeOrderError, sequences |-> <<>>]
    ELSE IF valid_min < 0 THEN [err |-> NegativeMinError, sequences |-> <<>>]
    ELSE IF ~f.exists THEN [err |-> FileNotFoundError, sequences |-> <<>>]
    ELSE IF Len(f.chars) = 0 THEN [err |-> NoError, sequences |-> <<>>]
    ELSE NonEmptyResult(ParseLines(ReadLines(f.chars, 1, <<>>), valid_min, valid_max, <<>>))

----------------------------------------------------------------------------
(* cli.py: main and the four commands.  args is the record of the parsed    *)
(* arguments (args.states is <<>> when --states is not given) and f the     *)
(* file at args.input.  The ranking tables that topk and posterior print    *)
(* and save are functions of the samples and are not kept: of an output     *)
(* file the model keeps the name.                                           *)

MinAboveMaxError == "min_state cannot be greater than max_state"
NegativeMinStateError == "min_state must be non-negative"
TooFewSequencesError == "Need at least 2 sequences"
MissingColumnFailure == "KeyError: 'probability'"
NoCommand == "none"
NotExited == -1

NoPrint == [argmax_sequences |-> <<>>, sampled_sequences |-> <<>>]

AnalysisFiles ==
    {"analysis_frequency.png", "analysis_heatmap.png",
     "analysis_transition_matrix.csv", "analysis_start_probs.csv"}
TopkFile == "topk_sequences.csv"
PosteriorFile == "posterior_top_sequences.csv"

\* what a command that returns 1 at once leaves behind
Outcome ==
    [exit |-> 1, err |-> NoError, sequences |-> <<>>, counts |-> EmptyCounts,
     states |-> <<>>, trans_mat |-> <<>>, start_probs |-> <<>>, rng |-> NoRng,
     sims |-> <<>>, printed |-> NoPrint, written |-> {}]

\* if len(sequences) < 1
TooFewBelowOne(seqs) == Len(seqs) < 1

\* if len(sequences) < 2
TooFew(seqs) == Len(seqs) < 2

\* counts, states = build_transition_counts(sequences);
\* trans = transition_matrix_from_counts(counts, states, alpha);
\* start_probs = empirical_start_distribution(sequences, states, alpha);
\* an exception ends the command with 1
FitStarts(o, seqs, alpha, e) ==
    IF e.err # NoError THEN [o EXCEPT !.err = e.err]
    ELSE [o EXCEPT !.start_probs = e.probs]
FitMatrix(o, seqs, alpha, with_matrix, t) ==
    IF t.err # NoError THEN [o EXCEPT !.err = t.err]
    ELSE FitStarts([o EXCEPT !.trans_mat = t.matrix], seqs, alpha,
                   empirical_start_distribution(seqs, o.states, alpha))
FitCounts(seqs, alpha, with_matrix, b) ==
    IF b.err # NoError THEN [Outcome EXCEPT !.err = b.err, !.sequences = seqs]
    ELSE IF with_matrix
    THEN FitMatrix([Outcome EXCEPT !.sequences = seqs, !.counts = b.counts,
                                   !.states = b.states],
                   seqs, alpha, with_matrix,
                   transition_matrix_from_counts(b.counts, b.states, alpha))
    ELSE FitStarts([Outcome EXCEPT !.sequences = seqs, !.counts = b.counts,
                                   !.states = b.states],
                   seqs, alpha, empirical_start_distribution(seqs, b.states, alpha))
Fit(seqs, alpha, with_matrix) ==
    FitCounts(seqs, alpha, with_matrix, build_transition_counts(seqs))

\* cmd_analyze after the fit: the plots and the tables are saved
AnalysisSaved(o) ==
    IF o.err # NoError THEN o ELSE [o EXCEPT !.exit = 0, !.written = AnalysisFiles]

\* Counter([seq[0] for seq in sequences if seq]).most_common(k): the first
\* states by decreasing count, those of equal count in order of first
\* appearance
RECURSIVE FirstStates(_, _)
FirstStates(seqs, acc) ==
    IF seqs = <<>> THEN acc
    ELSE FirstStates(Tail(seqs),
             IF seqs[1] = <<>> \/ \E i \in 1..Len(acc) : acc[i] = seqs[1][1] THEN acc
             ELSE Append(acc, seqs[1][1]))
StartsWith(seqs, s) == Cardinality({i \in 1..Len(seqs) : seqs[i] # <<>> /\ seqs[i][1] = s})
RECURSIVE MostCommon(_, _, _, _)
MostCommon(seqs, keys, k, acc) ==
    IF k <= 0 \/ keys = <<>> THEN acc
    ELSE LET best == CHOOSE i \in 1..Len(keys) :
                        /\ \A j \in 1..Len(keys) :
                              StartsWith(seqs, keys[j]) <= StartsWith(seqs, keys[i])
                        /\ \A j \in 1..(i - 1) :
                              StartsWith(seqs, keys[j]) < StartsWith(seqs, keys[i])
         IN  MostCommon(seqs, SubSeq(keys, 1, best - 1) \o SubSeq(keys, best + 1, Len(keys)),
                        k - 1, Append(acc, keys[best]))

\* the loop over top_starts; a ValueError of argmax_sequence is logged
AppendUnlessFailed(acc, r) == IF r.err = NoError THEN Append(acc, r.sequence) ELSE acc
RECURSIVE ArgmaxOut(_, _, _, _)
ArgmaxOut(o, length, starts, acc) ==
    IF starts = <<>> THEN acc
    ELSE ArgmaxOut(o, length, Tail(starts),
             AppendUnlessFailed(acc, argmax_sequence(starts[1], o.states, o.trans_mat, length)))

\* for _ in range(k): sample_sequence(..., rng=rng); an exception is logged
RECURSIVE Sampled(_, _, _, _)
SampledNext(o, length, k, acc, r) ==
    Sampled(o, length, k - 1, [sequences |-> AppendUnlessFailed(acc.sequences, r),
                               rng |-> r.rng])
Sampled(o, length, k, acc) ==
    IF k <= 0 THEN acc
    ELSE SampledNext(o, length, k, acc,
                     sample_sequence(o.states, o.start_probs, o.trans_mat, length, acc.rng))

PredictPrinted(o, argmax_out, sampled) ==
    [o EXCEPT !.exit = 0, !.rng = sampled.rng,
              !.printed = [argmax_sequences |-> argmax_out,
                           sampled_sequences |-> sampled.sequences]]
Predicted(o, length, k, seed) ==
    IF o.err # NoError THEN o
    ELSE PredictPrinted(o,
             ArgmaxOut(o, length, MostCommon(o.sequences, FirstStates(o.sequences, <<>>),
                                             k, <<>>), <<>>),
             Sampled(o, length, k, [sequences |-> <<>>, rng |-> default_rng(seed)]))

\* for i in range(n): sample_sequence, then logprob_of_sequence; an exception
\* of either is logged and the sample left out
RECURSIVE TopkSamples(_, _, _, _)
TopkScored(acc, q, lp) ==
    IF lp.err # NoError THEN [sims |-> acc.sims, rng |-> q.rng]
    ELSE [sims |-> Append(acc.sims, <<q.sequence, lp.logprob>>), rng |-> q.rng]
TopkSampled(o, acc, q) ==
    IF q.err # NoError THEN [sims |-> acc.sims, rng |-> q.rng]
    ELSE TopkScored(acc, q, logprob_of_sequence(q.sequence, o.states, o.start_probs,
                                                o.trans_mat))
TopkSamples(o, length, n, acc) ==
    IF n <= 0 THEN acc
    ELSE TopkSamples(o, length, n - 1,
             TopkSampled(o, acc, sample_sequence(o.states, o.start_probs, o.trans_mat,
                                                 length, acc.rng)))
\* pd.DataFrame(rows).sort_values(["probability", ...]) raises KeyError when
\* there is no row; otherwise the table is saved
TopkSaved(o, samples) ==
    IF samples.sims = <<>>
    THEN [o EXCEPT !.err = MissingColumnFailure, !.rng = samples.rng]
    ELSE [o EXCEPT !.exit = 0, !.rng = samples.rng, !.sims = samples.sims,
                   !.written = {TopkFile}]
Topk(o, length, n, seed) ==
    IF o.err # NoError THEN o
    ELSE TopkSaved(o, TopkSamples(o, length, n, [sims |-> <<>>, rng |-> default_rng(seed)]))

\* sims = posterior_predictive_sequences(...), then the table is saved
PosteriorSaved(o, r) ==
    IF r.err # NoError THEN [o EXCEPT !.err = r.err, !.rng = r.rng]
    ELSE [o EXCEPT !.exit = 0, !.rng = r.rng, !.sims = r.sims, !.written = {PosteriorFile}]
Posterior(o, alpha, length, nsamples, seed) ==
    IF o.err # NoError THEN o
    ELSE PosteriorSaved(o, posterior_predictive_sequences(o.sequences, o.states,
                               o.start_probs, alpha, length, nsamples, default_rng(seed)))

\* the body of a command once the file is parsed
Routed(args, seqs) ==
    IF args.command = "analyze" THEN AnalysisSaved(Fit(seqs, args.alpha, TRUE))
    ELSE IF args.command = "predict"
    THEN Predicted(Fit(seqs, args.alpha, TRUE), args.length, args.k, args.seed)
    ELSE IF args.command = "topk"
    THEN Topk(Fit(seqs, args.alpha, TRUE), args.length, args.n, args.seed)
    ELSE Posterior(Fit(seqs, args.alpha, FALSE), args.alpha, args.length, args.nsamples,
                   args.seed)

\* cmd_analyze, cmd_predict, cmd_topk, cmd_posterior: the file is parsed,
\* and fewer than 2 sequences end the command
Parsed(args, p) ==
    IF p.err # NoError THEN [Outcome EXCEPT !.err = p.err]
    ELSE IF TooFew(p.sequences)
    THEN [Outcome EXCEPT !.err = TooFewSequencesError, !.sequences = p.sequences]
    ELSE Routed(args, p.sequences)
cmd(args, f) == Parsed(args, parse_sequences_from_file(f, args.min_state, args.max_state))

\* if args.states: args.min_state, args.max_state = args.states
WithoutStatesOption(args) == args

WithStatesOption(args) ==
    IF args.states # <<>>
    THEN [args EXCEPT !.min_state = args.states[1], !.max_state = args.states[2]]
    ELSE args

\* hasattr(args, 'alpha')
HasAlpha(args) == args.command # NoCommand

\* hasattr(args, 'alpha') and args.alpha < 0
MainAlphaRejectedStrict(args) == HasAlpha(args) /\ RLt(args.alpha, RZero)

\* hasattr(args, 'alpha') and args.alpha <= 0
MainAlphaRejected(args) == HasAlpha(args) /\ RLe(args.alpha, RZero)

Validated(args, f) ==
    IF args.min_state > args.max_state THEN [Outcome EXCEPT !.err = MinAboveMaxError]
    ELSE IF args.min_state < 0 THEN [Outcome EXCEPT !.err = NegativeMinStateError]
    ELSE IF MainAlphaRejected(args) THEN [Outcome EXCEPT !.err = InvalidAlphaError]
    ELSE IF args.command = NoCommand THEN [Outcome EXCEPT !.exit = 0]
    ELSE cmd(args, f)

main(args, f) == Validated(WithStatesOption(args), f)

----------------------------------------------------------------------------
(* Inputs *)

States == 1..MaxState
SequencesOfLen(n) == [1..n -> States]

\* the batches of k sequences holding at most t states in all
RECURSIVE BatchesOf(_, _)
BatchesOf(k, t) ==
    IF k = 0 THEN {<<>>}
    ELSE UNION {{<<q>> \o b : q \in SequencesOfLen(n), b \in BatchesOf(k - 1, t - n)} :
                n \in 0..t}

Batches == UNION {BatchesOf(k, MaxTokens) : k \in 0..MaxSeqs}

\* the batches the tests and the spec's end-to-end scenario use
ExampleSequences == <<<<1, 2, 3>>, <<2, 3, 1>>, <<1, 2, 1>>>>
SingleStateSequences == <<<<1, 1, 1>>, <<1, 1>>>>
TwoSequences == <<<<1, 2, 3>>, <<2, 3, 1>>>>
TestBatches == {ExampleSequences, SingleStateSequences, TwoSequences}

\* alpha = -1, 0, 1/2, 1
Alphas == {Rat(-1, 1), RZero, Rat(1, 2), ROne}

\* lists of distinct states, in any order, the empty list included
StateLists ==
    {st \in UNION {[1..k -> States] : k \in 0..MaxState} :
        \A i, j \in 1..Len(st) : st[i] = st[j] => i = j}

Seeds == 0..MaxSeed

\* a row of weights, normalised to sum to 1
Normalised(w) == [j \in 1..Len(w) |-> Rat(w[j], SumSeq(w))]

\* the n-by-n matrices whose rows are normalised rows of weights 1 / HighWeight
Matrices(n) == [1..n -> {Normalised(w) : w \in [1..n -> {1, HighWeight}]}]

\* test_argmax_sequence's model
TestStates == <<1, 2, 3>>
TestMatrix == <<Normalised(<<1, 8, 1>>), Normalised(<<1, 1, 8>>), Normalised(<<8, 1, 1>>)>>

\* test_sample_sequence's and test_logprob_of_sequence's start distribution
TestStartProbs == <<Rat(5, 10), Rat(3, 10), Rat(2, 10)>>

\* the state test_logprob_of_sequence uses as one that is not in the states
UnknownState == 5

\* w moved k places to the right, cyclically
Rotate(w, k) == [j \in 1..Len(w) |-> w[((j - 1 - k) % Len(w)) + 1]]

\* rows of weights 0, 1 or HighWeight that are not all zero
ChainWeights(n) == [1..n -> {0, 1, HighWeight}] \ {[j \in 1..n |-> 0]}

\* the chain whose row i is w moved i - 1 places, normalised, and whose start
\* distribution is its last row
ChainMatrix(w) == [i \in 1..Len(w) |-> Normalised(Rotate(w, i - 1))]
ChainStart(w) == Normalised(Rotate(w, Len(w) - 1))

\* the arrays a caller may pass in place of a start distribution sp and a
\* matrix m: themselves, or ones of another shape
ShapeVariants == {"same", "short_start", "long_start", "fewer_rows", "fewer_cols"}
ButLast(q) == SubSeq(q, 1, Len(q) - 1)
StartVariant(sp, v) ==
    IF v = "short_start" THEN ButLast(sp)
    ELSE IF v = "long_start" THEN Append(sp, RZero)
    ELSE sp
MatrixVariant(m, v) ==
    IF v = "fewer_rows" THEN ButLast(m)
    ELSE IF v = "fewer_cols" THEN [i \in 1..Len(m) |-> ButLast(m[i])]
    ELSE m

\* the sequences a caller may score on a model over the states st
ScoredSequences(st) ==
    UNION {[1..k -> {st[i] : i \in 1..Len(st)} \cup {UnknownState}] : k \in 0..MaxScoredLen}

\* the files the tests write
\* test_parse_sequences_from_file_valid_input
ValidInputFile ==
    File(<<"1", ",", "2", ",", "3", ",", "4", ",", "5", "\n", "6", " ", "7",
         " ", "8", " ", "9", " ", "1", "0", "\n", "1", "1", ",", "1", "2",
         ",", "1", "3", ",", "1", "4", ",", "1", "5", "\n">>)

\* test_parse_sequences_from_file_with_invalid_tokens
InvalidTokensFile ==
    File(<<"1", ",", "a", "b", "c", ",", "3", ",", "4", ",", "5", "\n", "6",
         " ", "7", " ", "d", "e", "f", " ", "9", " ", "1", "0", "\n", "1",
         "1", ",", "1", "2", ",", "1", "3", ",", "1", "4", ",", "1", "5",
         "\n">>)

\* test_parse_sequences_from_file_with_out_of_range
OutOfRangeFile ==
    File(<<"1", ",", "2", ",", "3", ",", "4", "0", ",", "5", "\n", "6", " ",
         "7", " ", "8", " ", "9", " ", "1", "0", "\n", "0", ",", "1", "2",
         ",", "1", "3", ",", "1", "4", ",", "1", "5", "\n">>)

\* test_cli_analyze_command
ThreeSequencesFile ==
    File(<<"1", ",", "2", ",", "3", ",", "4", ",", "5", "\n", "2", ",", "3",
         ",", "4", ",", "5", ",", "6", "\n", "3", ",", "4", ",", "5", ",",
         "6", ",", "7", "\n">>)

\* test_cli_states_option
TwoSequencesFile ==
    File(<<"1", ",", "2", ",", "3", ",", "4", ",", "5", "\n", "2", ",", "3",
         ",", "4", ",", "5", ",", "6", "\n">>)

\* test_cli_analyze_insufficient_sequences
OneSequenceFile ==
    File(<<"1", ",", "2", ",", "3", ",", "4", ",", "5", "\n">>)

TestFiles == {ValidInputFile, InvalidTokensFile, OutOfRangeFile, ThreeSequencesFile,
              TwoSequencesFile, OneSequenceFile}

\* the characters of the generated files: digits, both separators, the line
\* end and a character of no integer
FileAlphabet == {"1", "2", ",", " ", "\n", "a"}
CharStrings(n) == [1..n -> FileAlphabet]
ShortFiles == {File(c) : c \in UNION {CharStrings(n) : n \in 0..MaxChars}}

\* the defaults of valid_min, valid_max
DefaultMinState == 1
DefaultMaxState == 35

\* the ranges (valid_min, valid_max) a caller passes
StateRanges ==
    {<<lo, hi>> : lo \in {-1, 1, MaxState}, hi \in {1, MaxState}}
    \cup {<<DefaultMinState, DefaultMaxState>>}

\* the empty batch and the batches of one sequence of at most MaxSeqs states
SmallBatches == {<<>>} \cup {<<q>> : q \in UNION {SequencesOfLen(n) : n \in 0..MaxSeqs}}

\* f.write of the tests: a batch written one sequence a line, the states
\* in decimal with commas between them
DigitChar(d) == CHOOSE c \in DOMAIN DigitValue : DigitValue[c] = d
RECURSIVE Decimal(_)
Decimal(n) == IF n < 10 THEN <<DigitChar(n)>> ELSE Decimal(n \div 10) \o <<DigitChar(n % 10)>>
RECURSIVE LineOf(_)
LineOf(seq) ==
    IF seq = <<>> THEN <<"\n">>
    ELSE IF Len(seq) = 1 THEN Decimal(seq[1]) \o <<"\n">>
    ELSE Decimal(seq[1]) \o <<",">> \o LineOf(Tail(seq))
RECURSIVE TextOf(_)
TextOf(batch) == IF batch = <<>> THEN <<>> ELSE LineOf(batch[1]) \o TextOf(Tail(batch))
FileOfBatch(batch) == File(TextOf(batch))

\* the input files of the command line: none, the files of the tests, and
\* the batches of at most one sequence and those of the tests as files
CliFiles ==
    {NoFile} \cup {ThreeSequencesFile, TwoSequencesFile, OneSequenceFile}
    \cup {FileOfBatch(b) : b \in SmallBatches \cup TestBatches}

\* the arguments of the command line
Commands == {NoCommand, "analyze", "predict", "topk", "posterior"}
RangeOptions == {<<>>, <<1, MaxState>>, <<MaxState, 1>>, <<-1, 1>>}
MinMaxStates ==
    {<<DefaultMinState, DefaultMaxState>>, <<1, MaxState>>, <<-1, MaxState>>, <<MaxState, 1>>}
NoArgs ==
    [command |-> NoCommand, states |-> <<>>, min_state |-> DefaultMinState,
     max_state |-> DefaultMaxState, alpha |-> ROne, length |-> 0, k |-> 0, n |-> 0,
     nsamples |-> 0, seed |-> 0]
\* a command takes one count: -k for predict, -n for topk, --nsamples for
\* posterior
CountsOf(command, count) ==
    [k |-> IF command = "predict" THEN count ELSE 0,
     n |-> IF command = "topk" THEN count ELSE 0,
     nsamples |-> IF command = "posterior" THEN count ELSE 0]
ArgsOf(command, option, minmax, alpha, length, count, seed) ==
    IF command = NoCommand
    THEN [NoArgs EXCEPT !.states = option, !.min_state = minmax[1], !.max_state = minmax[2]]
    ELSE IF command = "analyze"
    THEN [NoArgs EXCEPT !.command = command, !.states = option, !.min_state = minmax[1],
                        !.max_state = minmax[2], !.alpha = alpha]
    ELSE [NoArgs EXCEPT !.command = command, !.states = option, !.min_state = minmax[1],
                        !.max_state = minmax[2], !.alpha = alpha, !.length = length,
                        !.k = CountsOf(command, count).k, !.n = CountsOf(command, count).n,
                        !.nsamples = CountsOf(command, count).nsamples, !.seed = seed]
CliArgs ==
    {ArgsOf(c, o, mm, a, l, x, sd) :
        c \in Commands, o \in RangeOptions, mm \in MinMaxStates, a \in Alphas,
        l \in {0, MaxPredLen}, x \in {0, MaxSamples}, sd \in Seeds}

NoCall == [op |-> "none", alpha |-> RZero, states |-> <<>>,
           start_state |-> 0, length |-> 0, seed |-> -1,
           start_probs |-> <<>>, trans_mat |-> <<>>, seq |-> <<>>,
           alpha_vec |-> <<>>, nsamples |-> 0,
           valid_min |-> 0, valid_max |-> 0,
           command |-> NoCommand, range_option |-> <<>>, k |-> 0, n |-> 0]

NoReplay == [err |-> NoError, trans_mat |-> <<>>, sequence |-> <<>>, sims |-> <<>>,
             rng |-> NoRng]

----------------------------------------------------------------------------
(* The estimation pipeline: a batch is fitted, then the estimators are     *)
(* called on it.                                                           *)

Init ==
    /\ sequences \in Batches \cup TestBatches
    /\ pc = "input"
    /\ counts = EmptyCounts
    /\ states = <<>>
    /\ call = NoCall
    /\ err = NoError
    /\ trans_mat = <<>>
    /\ start_probs = <<>>
    /\ sequence = <<>>
    /\ rng = NoRng
    /\ prob_row = <<>>
    /\ logprob = <<>>
    /\ sims = <<>>
    /\ replay = NoReplay
    /\ file = NoFile
    /\ written = {}
    /\ exit_status = NotExited
    /\ printed = NoPrint

\* counts, states = build_transition_counts(sequences)
BuildTransitionCounts ==
    /\ pc = "input"
    /\ LET r == build_transition_counts(sequences)
       IN  /\ pc' = IF r.err = NoError THEN "built" ELSE "failed"
           /\ counts' = r.counts
           /\ states' = r.states
           /\ err' = r.err
    /\ call' = [NoCall EXCEPT !.op = "build_transition_counts"]
    /\ UNCHANGED <<sequences, trans_mat, start_probs, sequence, rng, prob_row, logprob, sims, replay>>
    /\ UNCHANGED <<file, written, exit_status, printed>>

\* the states list a caller passes: the fitted one, or, when the batch could
\* not be fitted, a list of its own
CallerStates == IF pc = "built" THEN {states} ELSE StateLists

\* transition_matrix_from_counts(counts, states, alpha)
\* the states list passed with the counts: the one build_transition_counts
\* returned with them or, for counts kept from an earlier fit, any list
MatrixStates == IF pc = "built" THEN {states} ELSE StateLists

TransitionMatrixFromCounts ==
    /\ pc \in {"built", "counted"}
    /\ \E a \in Alphas, st \in MatrixStates :
        LET r == transition_matrix_from_counts(counts, st, a)
        IN  /\ call' = [NoCall EXCEPT !.op = "transition_matrix_from_counts",
                                      !.alpha = a, !.states = st]
            /\ err' = r.err
            /\ trans_mat' = r.matrix
            /\ counts' = IF r.err = InvalidAlphaError THEN counts
                         ELSE CountsAfterRows(counts, st, 1)
    /\ pc' = "returned"
    /\ start_probs' = <<>>
    /\ sequence' = <<>>
    /\ rng' = NoRng
    /\ UNCHANGED <<sequences, states, prob_row, logprob, sims, replay>>
    /\ UNCHANGED <<file, written, exit_status, printed>>

\* empirical_start_distribution(sequences, states, alpha)
EmpiricalStartDistribution ==
    /\ pc \in {"built", "failed"}
    /\ \E a \in Alphas, st \in CallerStates :
        LET r == empirical_start_distribution(sequences, st, a)
        IN  /\ call' = [NoCall EXCEPT !.op = "empirical_start_distribution",
                                      !.alpha = a, !.states = st]
            /\ err' = r.err
            /\ start_probs' = r.probs
    /\ pc' = "returned"
    /\ trans_mat' = <<>>
    /\ sequence' = <<>>
    /\ rng' = NoRng
    /\ UNCHANGED <<sequences, counts, states, prob_row, logprob, sims, replay>>
    /\ UNCHANGED <<file, written, exit_status, printed>>

\* the generator a caller passes: None (seed -1) or default_rng(seed)
PassedRng(seed) == IF seed = -1 THEN NoRng ELSE default_rng(seed)

\* the caller's generator after a call that drew from g up to state after
CallerRng(passed, g, after) == IF g = passed THEN after ELSE passed

\* sample_transition_matrix_posterior(sequences, states, alpha, rng); with
\* rng=None the function draws from a fresh default_rng() of unknown seed.
\* The call is run twice from the same arguments; a fresh generator is
\* default_rng(0) in the first run and default_rng(e2), any seed e2, in the second.
SampleTransitionMatrixPosterior ==
    /\ pc \in {"built", "failed"}
    /\ \E a \in Alphas, st \in CallerStates, seed \in Seeds \cup {-1} :
        \E g1 \in {ResolveRng(PassedRng(seed), default_rng(0))} :
        \E r \in {sample_transition_matrix_posterior(sequences, st, a, g1)} :
        \E g2 \in {ResolveRng(PassedRng(seed), default_rng(e2)) : e2 \in Seeds} :
        \E r2 \in {sample_transition_matrix_posterior(sequences, st, a, g2)} :
            /\ call' = [NoCall EXCEPT !.op = "sample_transition_matrix_posterior",
                                      !.alpha = a, !.states = st, !.seed = seed]
            /\ err' = r.err
            /\ trans_mat' = r.matrix
            /\ rng' = CallerRng(PassedRng(seed), g1, r.rng)
            /\ replay' = [NoReplay EXCEPT !.err = r2.err, !.trans_mat = r2.matrix,
                                          !.rng = CallerRng(PassedRng(seed), g2, r2.rng)]
    /\ pc' = "returned"
    /\ start_probs' = <<>>
    /\ sequence' = <<>>
    /\ UNCHANGED <<sequences, counts, states, prob_row, logprob, sims>>
    /\ UNCHANGED <<file, written, exit_status, printed>>

Next ==
    \/ BuildTransitionCounts
    \/ TransitionMatrixFromCounts
    \/ EmpiricalStartDistribution
    \/ SampleTransitionMatrixPosterior

Spec == Init /\ [][Next]_vars

----------------------------------------------------------------------------
(* The sequence generator on a caller-supplied model (states, matrix)       *)

GenInit ==
    /\ \E st \in (StateLists \ {<<>>}) \cup {TestStates} :
        /\ states = st
        /\ trans_mat \in IF st = TestStates THEN Matrices(Len(st)) \cup {TestMatrix}
                         ELSE Matrices(Len(st))
    /\ pc = "model"
    /\ sequences = <<>>
    /\ counts = EmptyCounts
    /\ call = NoCall
    /\ err = NoError
    /\ start_probs = <<>>
    /\ sequence = <<>>
    /\ rng = NoRng
    /\ prob_row = <<>>
    /\ logprob = <<>>
    /\ sims = <<>>
    /\ replay = NoReplay
    /\ file = NoFile
    /\ written = {}
    /\ exit_status = NotExited
    /\ printed = NoPrint

\* argmax_sequence(start_state, states, trans_mat, length)
ArgmaxSequence ==
    /\ pc = "model"
    /\ \E s \in 1..(MaxState + 1), length \in 0..MaxGenLen :
        LET r == argmax_sequence(s, states, trans_mat, length)
        IN  /\ call' = [NoCall EXCEPT !.op = "argmax_sequence", !.states = states,
                                      !.start_state = s, !.length = length]
            /\ err' = r.err
            /\ sequence' = r.sequence
    /\ pc' = "returned"
    /\ UNCHANGED <<sequences, counts, states, trans_mat, start_probs, rng, prob_row, logprob, sims, replay>>
    /\ UNCHANGED <<file, written, exit_status, printed>>

GenNext == ArgmaxSequence

GenSpec == GenInit /\ [][GenNext]_vars

----------------------------------------------------------------------------
(* Posterior-predictive simulation on a batch                              *)


\* alpha = -1, 0, 1
PredictiveAlphas == {Rat(-1, 1), RZero, ROne}

PredInit ==
    /\ sequences \in SmallBatches \cup TestBatches
    /\ pc = "input"
    /\ counts = EmptyCounts
    /\ states = <<>>
    /\ call = NoCall
    /\ err = NoError
    /\ trans_mat = <<>>
    /\ start_probs = <<>>
    /\ sequence = <<>>
    /\ rng = NoRng
    /\ prob_row = <<>>
    /\ logprob = <<>>
    /\ sims = <<>>
    /\ replay = NoReplay
    /\ file = NoFile
    /\ written = {}
    /\ exit_status = NotExited
    /\ printed = NoPrint

\* the states list a caller passes with the batch: the fitted one, or, when
\* the batch could not be fitted, the sorted list of the states it holds
StatesOfBatch ==
    IF pc = "built" THEN states
    ELSE Sorted(UNION {{sequences[k][i] : i \in 1..Len(sequences[k])} : k \in 1..Len(sequences)})

\* the start distribution a caller passes with the states list st: the one
\* estimated from the batch with alpha = 1 or, when that fails, the uniform one
EstimatedOrUniform(e, n) == IF e.err = NoError THEN e.probs ELSE UniformRow(n)
CallerStartProbs(st) ==
    EstimatedOrUniform(empirical_start_distribution(sequences, st, ROne), Len(st))

\* the start distributions a caller passes: the one over the states list,
\* and a vector with one entry more than the states list has states
CallerStartVectors(st) == {CallerStartProbs(st), UniformRow(Len(st) + 1)}

\* posterior_predictive_sequences(sequences, states, start_probs, alpha,
\* length, nsamples, rng), run twice (see SampleTransitionMatrixPosterior)
PosteriorPredictiveSequences ==
    /\ pc \in {"built", "failed"}
    /\ \E a \in PredictiveAlphas, st \in {StatesOfBatch}, length \in 0..MaxPredLen,
          nsamples \in 0..MaxSamples, seed \in Seeds \cup {-1} :
        \E sp \in CallerStartVectors(st),
           g1 \in {ResolveRng(PassedRng(seed), default_rng(0))},
           g2 \in {ResolveRng(PassedRng(seed), default_rng(e2)) : e2 \in Seeds} :
        \E r \in {posterior_predictive_sequences(sequences, st, sp, a, length, nsamples, g1)},
           r2 \in {posterior_predictive_sequences(sequences, st, sp, a, length, nsamples, g2)} :
            /\ call' = [NoCall EXCEPT !.op = "posterior_predictive_sequences",
                                      !.alpha = a, !.states = st, !.start_probs = sp,
                                      !.length = length, !.nsamples = nsamples,
                                      !.seed = seed]
            /\ err' = r.err
            /\ sims' = r.sims
            /\ rng' = CallerRng(PassedRng(seed), g1, r.rng)
            /\ replay' = [NoReplay EXCEPT !.err = r2.err, !.sims = r2.sims,
                                          !.rng = CallerRng(PassedRng(seed), g2, r2.rng)]
    /\ pc' = "returned"
    /\ UNCHANGED <<sequences, counts, states, trans_mat, start_probs, sequence, prob_row,
                   logprob>>
    /\ UNCHANGED <<file, written, exit_status, printed>>

PredNext ==
    \/ BuildTransitionCounts
    \/ SampleTransitionMatrixPosterior
    \/ PosteriorPredictiveSequences

PredSpec == PredInit /\ [][PredNext]_vars

----------------------------------------------------------------------------
(* The Dirichlet row sampler on a caller-supplied concentration vector      *)

\* -1, 0, 1/2, 1 and HighWeight
Concentrations == Alphas \cup {RInt(HighWeight)}
ConcentrationVectors == UNION {[1..k -> Concentrations] : k \in 0..MaxVecLen}

RowInit ==
    /\ pc = "concentration"
    /\ sequences = <<>>
    /\ counts = EmptyCounts
    /\ states = <<>>
    /\ call = NoCall
    /\ err = NoError
    /\ trans_mat = <<>>
    /\ start_probs = <<>>
    /\ sequence = <<>>
    /\ rng = NoRng
    /\ prob_row = <<>>
    /\ logprob = <<>>
    /\ sims = <<>>
    /\ replay = NoReplay
    /\ file = NoFile
    /\ written = {}
    /\ exit_status = NotExited
    /\ printed = NoPrint

\* dirichlet_sample_row(alpha_vec, rng)
DirichletSampleRow ==
    /\ pc = "concentration"
    /\ \E v \in ConcentrationVectors, seed \in Seeds :
        LET r == dirichlet_sample_row(v, default_rng(seed))
        IN  /\ call' = [NoCall EXCEPT !.op = "dirichlet_sample_row", !.alpha_vec = v,
                                      !.seed = seed]
            /\ err' = r.err
            /\ prob_row' = r.row
            /\ rng' = r.rng
    /\ pc' = "returned"
    /\ UNCHANGED <<sequences, counts, states, trans_mat, start_probs, sequence, logprob,
                   sims, replay>>
    /\ UNCHANGED <<file, written, exit_status, printed>>

RowNext == DirichletSampleRow

RowSpec == RowInit /\ [][RowNext]_vars

----------------------------------------------------------------------------
(* The sequence generator and the scorer on a caller-supplied model         *)
(* (states, start distribution, matrix)                                    *)

ChainInit ==
    /\ \/ \E st \in StateLists \ {<<>>} : \E w \in ChainWeights(Len(st)) :
            /\ states = st
            /\ start_probs = ChainStart(w)
            /\ trans_mat = ChainMatrix(w)
       \/ /\ states = TestStates
          /\ start_probs = TestStartProbs
          /\ trans_mat = TestMatrix
       \/ /\ states = <<>>
          /\ start_probs = <<>>
          /\ trans_mat = <<>>
    /\ pc = "model"
    /\ sequences = <<>>
    /\ counts = EmptyCounts
    /\ call = NoCall
    /\ err = NoError
    /\ sequence = <<>>
    /\ rng = NoRng
    /\ prob_row = <<>>
    /\ logprob = <<>>
    /\ sims = <<>>
    /\ replay = NoReplay
    /\ file = NoFile
    /\ written = {}
    /\ exit_status = NotExited
    /\ printed = NoPrint

\* sample_sequence(states, start_probs, trans_mat, length, rng), run twice
\* (see SampleTransitionMatrixPosterior)
SampleSequence ==
    /\ pc = "model"
    /\ \E length \in 0..MaxGenLen, v \in ShapeVariants, seed \in Seeds \cup {-1} :
        \E sp \in {StartVariant(start_probs, v)}, m \in {MatrixVariant(trans_mat, v)},
           g1 \in {ResolveRng(PassedRng(seed), default_rng(0))},
           g2 \in {ResolveRng(PassedRng(seed), default_rng(e2)) : e2 \in Seeds} :
        \E r \in {sample_sequence(states, sp, m, length, g1)},
           r2 \in {sample_sequence(states, sp, m, length, g2)} :
            /\ call' = [NoCall EXCEPT !.op = "sample_sequence", !.states = states,
                                      !.start_probs = sp, !.trans_mat = m,
                                      !.length = length, !.seed = seed]
            /\ err' = r.err
            /\ sequence' = r.sequence
            /\ rng' = CallerRng(PassedRng(seed), g1, r.rng)
            /\ replay' = [NoReplay EXCEPT !.err = r2.err, !.sequence = r2.sequence,
                                          !.rng = CallerRng(PassedRng(seed), g2, r2.rng)]
    /\ pc' = "returned"
    /\ UNCHANGED <<sequences, counts, states, trans_mat, start_probs, prob_row, logprob, sims>>
    /\ UNCHANGED <<file, written, exit_status, printed>>

\* logprob_of_sequence(seq, states, start_probs, trans_mat)
LogprobOfSequence ==
    /\ pc = "model"
    /\ \E seq \in ScoredSequences(states), v \in {"same", "short_start", "fewer_rows"} :
        LET sp == StartVariant(start_probs, v)
            m == MatrixVariant(trans_mat, v)
            r == logprob_of_sequence(seq, states, sp, m)
        IN  /\ call' = [NoCall EXCEPT !.op = "logprob_of_sequence", !.states = states,
                                      !.start_probs = sp, !.trans_mat = m, !.seq = seq]
            /\ err' = r.err
            /\ logprob' = r.logprob
    /\ pc' = "returned"
    /\ UNCHANGED <<sequences, counts, states, trans_mat, start_probs, sequence, rng,
                   prob_row, sims, replay>>
    /\ UNCHANGED <<file, written, exit_status, printed>>

ChainNext ==
    \/ ArgmaxSequence
    \/ SampleSequence
    \/ LogprobOfSequence

ChainSpec == ChainInit /\ [][ChainNext]_vars

----------------------------------------------------------------------------
(* The three sampling functions together, each on its inputs: a batch for   *)
(* the posterior sampler and the simulation, a model for sample_sequence   *)

ReplayInit == PredInit \/ ChainInit

ReplayNext == PredNext \/ ChainNext

ReplaySpec == ReplayInit /\ [][ReplayNext]_vars

----------------------------------------------------------------------------
(* The estimator on counts kept from a fit and any states list              *)

MatrixInit ==
    /\ sequences \in SmallBatches \cup TestBatches
    /\ counts = build_transition_counts(sequences).counts
    /\ states = build_transition_counts(sequences).states
    /\ pc = "counted"
    /\ call = NoCall
    /\ err = NoError
    /\ trans_mat = <<>>
    /\ start_probs = <<>>
    /\ sequence = <<>>
    /\ rng = NoRng
    /\ prob_row = <<>>
    /\ logprob = <<>>
    /\ sims = <<>>
    /\ replay = NoReplay
    /\ file = NoFile
    /\ written = {}
    /\ exit_status = NotExited
    /\ printed = NoPrint

MatrixNext == TransitionMatrixFromCounts

MatrixSpec == MatrixInit /\ [][MatrixNext]_vars

----------------------------------------------------------------------------
(* Every operation downstream of build_transition_counts, on a batch or on  *)
(* a caller-supplied model                                                  *)

FrameInit == PredInit \/ ChainInit

FrameNext ==
    \/ BuildTransitionCounts
    \/ TransitionMatrixFromCounts
    \/ EmpiricalStartDistribution
    \/ SampleTransitionMatrixPosterior
    \/ PosteriorPredictiveSequences
    \/ ArgmaxSequence
    \/ SampleSequence
    \/ LogprobOfSequence

FrameSpec == FrameInit /\ [][FrameNext]_vars

----------------------------------------------------------------------------
(* A model fitted to a batch, and sequences scored on it                    *)

FitInit == PredInit

\* counts, states = build_transition_counts(sequences);
\* trans = transition_matrix_from_counts(counts, states, alpha);
\* start_probs = empirical_start_distribution(sequences, states, alpha)
FitModel ==
    /\ pc = "input"
    /\ \E a \in Alphas :
        \E o \in {Fit(sequences, a, TRUE)} :
            /\ call' = [NoCall EXCEPT !.op = "fit", !.alpha = a]
            /\ err' = o.err
            /\ counts' = o.counts
            /\ states' = o.states
            /\ trans_mat' = o.trans_mat
            /\ start_probs' = o.start_probs
            /\ pc' = IF o.err = NoError THEN "model" ELSE "failed"
    /\ UNCHANGED <<sequences, sequence, rng, prob_row, logprob, sims, replay>>
    /\ UNCHANGED <<file, written, exit_status, printed>>

FitNext ==
    \/ FitModel
    \/ LogprobOfSequence

FitSpec == FitInit /\ [][FitNext]_vars

----------------------------------------------------------------------------
(* The parser on an input file                                              *)

ParseInit ==
    /\ file \in {NoFile} \cup ShortFiles \cup TestFiles
    /\ pc = "file"
    /\ sequences = <<>>
    /\ counts = EmptyCounts
    /\ states = <<>>
    /\ call = NoCall
    /\ err = NoError
    /\ trans_mat = <<>>
    /\ start_probs = <<>>
    /\ sequence = <<>>
    /\ rng = NoRng
    /\ prob_row = <<>>
    /\ logprob = <<>>
    /\ sims = <<>>
    /\ replay = NoReplay
    /\ written = {}
    /\ exit_status = NotExited
    /\ printed = NoPrint

\* sequences = parse_sequences_from_file(path, valid_min, valid_max)
ParseSequencesFromFile ==
    /\ pc = "file"
    /\ \E range \in StateRanges :
        \E r \in {parse_sequences_from_file(file, range[1], range[2])} :
            /\ call' = [NoCall EXCEPT !.op = "parse_sequences_from_file",
                                      !.valid_min = range[1], !.valid_max = range[2]]
            /\ err' = r.err
            /\ sequences' = r.sequences
    /\ pc' = "returned"
    /\ UNCHANGED <<counts, states, trans_mat, start_probs, sequence, rng, prob_row, logprob,
                   sims, replay, file, written, exit_status, printed>>

ParseNext == ParseSequencesFromFile

ParseSpec == ParseInit /\ [][ParseNext]_vars

----------------------------------------------------------------------------
(* The command line on an input file                                        *)

CliInit ==
    /\ file \in CliFiles
    /\ pc = "shell"
    /\ sequences = <<>>
    /\ counts = EmptyCounts
    /\ states = <<>>
    /\ call = NoCall
    /\ err = NoError
    /\ trans_mat = <<>>
    /\ start_probs = <<>>
    /\ sequence = <<>>
    /\ rng = NoRng
    /\ prob_row = <<>>
    /\ logprob = <<>>
    /\ sims = <<>>
    /\ replay = NoReplay
    /\ written = {}
    /\ exit_status = NotExited
    /\ printed = NoPrint

\* main(argv)
Main ==
    /\ pc = "shell"
    /\ \E args \in CliArgs :
        \E o \in {main(args, file)} :
            /\ call' = [NoCall EXCEPT !.op = "main", !.command = args.command,
                                      !.range_option = args.states,
                                      !.valid_min = args.min_state,
                                      !.valid_max = args.max_state,
                                      !.alpha = args.alpha, !.length = args.length,
                                      !.k = args.k, !.n = args.n,
                                      !.nsamples = args.nsamples, !.seed = args.seed]
            /\ exit_status' = o.exit
            /\ err' = o.err
            /\ sequences' = o.sequences
            /\ counts' = o.counts
            /\ states' = o.states
            /\ trans_mat' = o.trans_mat
            /\ start_probs' = o.start_probs
            /\ rng' = o.rng
            /\ sims' = o.sims
            /\ printed' = o.printed
            /\ written' = o.written
    /\ pc' = "returned"
    /\ UNCHANGED <<sequence, prob_row, logprob, replay, file>>

CliNext == Main

CliSpec == CliInit /\ [][CliNext]_vars

----------------------------------------------------------------------------
(* Vocabulary of the properties, defined from the inputs and not from the  *)
(* operators above                                                         *)

Elements(q) == {q[i] : i \in 1..Len(q)}
StrictlyIncreasing(st) == \A i, j \in 1..Len(st) : i < j => st[i] < st[j]
IsPositive(a) == RLt(RZero, a)

\* counts[s][d] read the way a Counter answers: 0 for an absent key
CountOf(c, s, d) == IF s \in DOMAIN c /\ d \in DOMAIN c[s] THEN c[s][d] ELSE 0

\* the positions <<k, i>> where sequence k holds s followed by d
PairPositions(seqs, s, d) ==
    {p \in UNION {{<<k, i>> : i \in 1..(Len(seqs[k]) - 1)} : k \in 1..Len(seqs)} :
        seqs[p[1]][p[2]] = s /\ seqs[p[1]][p[2] + 1] = d}

\* the states some sequence of the batch holds, and those holding a transition
ObservedStates(seqs) == UNION {Elements(seqs[k]) : k \in 1..Len(seqs)}
TransitionStates(seqs) == UNION {Elements(seqs[k]) : k \in {x \in 1..Len(seqs) : Len(seqs[x]) >= 2}}

\* the number of non-empty sequences that start with s
StartCountOf(seqs, s) == Cardinality({k \in 1..Len(seqs) : seqs[k] # <<>> /\ seqs[k][1] = s})

BuildReturned == pc \in {"built", "failed"}
BuildSucceeded == pc # "input" /\ counts # EmptyCounts

IsRowStochastic(m, n) ==
    /\ Len(m) = n
    /\ \A i \in 1..n :
        /\ Len(m[i]) = n
        /\ \A j \in 1..n : IsFinite(m[i][j]) /\ m[i][j][1] >= 0
        /\ RSum(m[i]) = ROne

----------------------------------------------------------------------------
(* C1: for alpha > 0 and counts, states built from a valid batch, both      *)
(* transition_matrix_from_counts and sample_transition_matrix_posterior    *)
(* return a matrix, and it is n-by-n with every entry >= 0 and every row    *)
(* summing to 1.                                                           *)
C1_RowStochastic ==
    (/\ call.op \in {"transition_matrix_from_counts", "sample_transition_matrix_posterior"}
     /\ BuildSucceeded
     /\ IsPositive(call.alpha))
    => (err = NoError /\ IsRowStochastic(trans_mat, Len(states)))

\* a sampled 2-by-2 (or larger) posterior matrix with a state that has no outgoing transition
C1_Witness ==
    /\ call.op = "sample_transition_matrix_posterior"
    /\ err = NoError
    /\ Len(trans_mat) >= 2
    /\ \E i \in 1..Len(states) : states[i] \notin DOMAIN counts

----------------------------------------------------------------------------
(* C2: transition_matrix_from_counts is the smoothing formula on every     *)
(* row: entry (s, d) = (count(s, d) + alpha) / (sum of counts[s] + alpha*n)  *)
(* with count 0 when absent; a state with no outgoing transition has the   *)
(* row 1/n, which is what the formula gives with all counts zero.          *)
SmoothedEntry(s, d, alpha, st) ==
    RDiv(RAdd(RInt(CountOf(counts, s, d)), alpha),
         RAdd(RSum([j \in 1..Len(st) |-> RInt(CountOf(counts, s, st[j]))]),
              RMul(alpha, RInt(Len(st)))))

C2_SmoothingFormula ==
    (call.op = "transition_matrix_from_counts" /\ IsPositive(call.alpha))
    => /\ err = NoError
       /\ \A i, j \in 1..Len(states) :
            /\ trans_mat[i][j] = SmoothedEntry(states[i], states[j], call.alpha, states)
            /\ states[i] \notin DOMAIN counts => trans_mat[i][j] = Rat(1, Len(states))

\* a matrix with a row for a state without outgoing transitions and a row
\* that has both an observed and an unobserved destination
C2_Witness ==
    /\ call.op = "transition_matrix_from_counts"
    /\ err = NoError
    /\ \E i \in 1..Len(states) : states[i] \notin DOMAIN counts
    /\ \E i, j, k \in 1..Len(states) :
        CountOf(counts, states[i], states[j]) > 0 /\ CountOf(counts, states[i], states[k]) = 0

----------------------------------------------------------------------------
(* C3 as stated: for [[1,2,3],[2,3,1],[1,2,1]] build_transition_counts     *)
(* returns states [1,2,3] and the counts 1 -> {2: 2}, 2 -> {3: 1, 1: 1},    *)
(* 3 -> {1: 1}.                                                            *)
C3_ExampleCountsAsStated ==
    (pc = "built" /\ sequences = ExampleSequences)
    => /\ states = <<1, 2, 3>>
       /\ counts = (1 :> (2 :> 2)) @@ (2 :> ((3 :> 1) @@ (1 :> 1))) @@ (3 :> (1 :> 1))

(* C3, amended: for [[1,2,3],[2,3,1],[1,2,1]] build_transition_counts      *)
(* returns states [1,2,3] and the counts 1 -> {2: 2}, 2 -> {3: 2, 1: 1},    *)
(* 3 -> {1: 1}: the transition 2 -> 3 occurs in two of the sequences.       *)
C3_ExampleCounts ==
    (pc = "built" /\ sequences = ExampleSequences)
    => /\ states = <<1, 2, 3>>
       /\ counts = (1 :> (2 :> 2)) @@ (2 :> ((3 :> 2) @@ (1 :> 1))) @@ (3 :> (1 :> 1))

C3_Witness == pc = "built" /\ sequences = ExampleSequences

----------------------------------------------------------------------------
(* C4: for every accepted batch and all states s, d, counts[s][d] is the    *)
(* number of positions i of any sequence q with q[i] = s and q[i+1] = d,    *)
(* self-transitions included; so the counts of s sum to the number of      *)
(* outgoing transitions observed from s.                                   *)
C4_CountsArePairCounts ==
    BuildSucceeded =>
        LET S == ObservedStates(sequences) \cup DOMAIN counts
                    \cup UNION {DOMAIN counts[s] : s \in DOMAIN counts}
        IN  \A s \in S :
                /\ \A d \in S :
                    CountOf(counts, s, d) = Cardinality(PairPositions(sequences, s, d))
                /\ s \in DOMAIN counts =>
                    SumValues(counts[s])
                        = Cardinality(UNION {PairPositions(sequences, s, d) : d \in S})

\* a self-transition counted twice
C4_Witness == pc = "built" /\ \E s \in DOMAIN counts : CountOf(counts, s, s) >= 2

----------------------------------------------------------------------------
----------------------------------------------------------------------------
WithoutSingletons(seqs) == SelectSeq(seqs, LAMBDA q : Len(q) # 1)
\* the batch with the one-state sequence <<x>> put in before position k
WithSingleton(seqs, k, x) == SubSeq(seqs, 1, k - 1) \o <<<<x>>>> \o SubSeq(seqs, k, Len(seqs))

----------------------------------------------------------------------------
(* C7: transition_matrix_from_counts and empirical_start_distribution fail  *)
(* with 'Alpha must be positive' for alpha = 0 and for alpha < 0, whatever  *)
(* the counts, sequences and states, and return nothing.                   *)
C7_InvalidAlpha ==
    (/\ call.op \in {"transition_matrix_from_counts", "empirical_start_distribution"}
     /\ ~IsPositive(call.alpha))
    => (err = InvalidAlphaError /\ trans_mat = <<>> /\ start_probs = <<>>)

\* alpha = 0 is rejected for an empty batch too, before the empty-input check
C7_Witness ==
    /\ call.op = "empirical_start_distribution"
    /\ call.alpha = RZero
    /\ sequences = <<>>
    /\ err = InvalidAlphaError

----------------------------------------------------------------------------
(* C8: for alpha > 0 (a non-empty batch, a non-empty states list)           *)
(* empirical_start_distribution returns a vector of length n with          *)
(* entry(s) = (start_count(s) + alpha) / (total_starts + alpha*n),          *)
(* start_count(s) the number of non-empty sequences starting with s and    *)
(* total_starts the sum of the start counts; it sums to 1, its entries are *)
(* >= 0, and more starts give a strictly larger probability.               *)
C8_StartDistribution ==
    (/\ call.op = "empirical_start_distribution"
     /\ IsPositive(call.alpha)
     /\ sequences # <<>>
     /\ call.states # <<>>)
    => LET st == call.states
           n == Len(st)
           total == RSum([i \in 1..n |-> RInt(StartCountOf(sequences, st[i]))])
       IN  /\ err = NoError
           /\ Len(start_probs) = n
           /\ \A i \in 1..n :
                /\ start_probs[i] =
                     RDiv(RAdd(RInt(StartCountOf(sequences, st[i])), call.alpha),
                          RAdd(total, RMul(call.alpha, RInt(n))))
                /\ IsFinite(start_probs[i]) /\ start_probs[i][1] >= 0
           /\ RSum(start_probs) = ROne
           /\ \A i, j \in 1..n :
                StartCountOf(sequences, st[i]) > StartCountOf(sequences, st[j])
                    => RLt(start_probs[j], start_probs[i])

\* a distribution over two or more states, one with more starts than another,
\* from a batch that also holds an empty sequence
C8_Witness ==
    /\ call.op = "empirical_start_distribution"
    /\ err = NoError
    /\ \E i, j \in 1..Len(call.states) :
        StartCountOf(sequences, call.states[i]) > StartCountOf(sequences, call.states[j])
    /\ \E k \in 1..Len(sequences) : sequences[k] = <<>>

----------------------------------------------------------------------------
(* Vocabulary of the generator's properties: lists of distinct states       *)

IndexOf(st, s) == CHOOSE i \in 1..Len(st) : st[i] = s
\* the indices holding the maximum of a row
MaxIndices(row) == {j \in 1..Len(row) : \A k \in 1..Len(row) : RLe(row[k], row[j])}
ArgmaxReturned ==
    call.op = "argmax_sequence" /\ call.length >= 1 /\ call.start_state \in Elements(states)

(* C9: for a start_state of the state space and length >= 1,                *)
(* argmax_sequence returns exactly `length` states, the first of which is  *)
(* start_state and each later one a destination of maximum probability in  *)
(* the row of the one before it; states [1,2,3] with rows                  *)
(* [[.1,.8,.1],[.1,.1,.8],[.8,.1,.1]], start 1 and length 4 give [1,2,3,1]. *)
C9_ArgmaxSequence ==
    ArgmaxReturned =>
        /\ err = NoError
        /\ Len(sequence) = call.length
        /\ sequence[1] = call.start_state
        /\ \A k \in 1..(call.length - 1) :
            \E j \in MaxIndices(trans_mat[IndexOf(states, sequence[k])]) :
                sequence[k + 1] = states[j]
        /\ (/\ states = TestStates /\ trans_mat = TestMatrix
            /\ call.start_state = 1 /\ call.length = 4) => sequence = <<1, 2, 3, 1>>

\* the test's walk
C9_Witness ==
    /\ call.op = "argmax_sequence"
    /\ states = TestStates /\ trans_mat = TestMatrix
    /\ call.start_state = 1 /\ call.length = 4
    /\ sequence = <<1, 2, 3, 1>>

----------------------------------------------------------------------------
\* the destinations tied for the maximum in the row of state s
TiedDestinations(s) ==
    {states[j] : j \in MaxIndices(trans_mat[IndexOf(states, s)])}

(* C10 as stated: on a tie for the maximum, argmax_sequence selects the     *)
(* tied destination with the lowest state value, for every states list and *)
(* matrix it accepts.                                                      *)
C10_LowestStateAsStated ==
    (ArgmaxReturned /\ err = NoError) =>
        \A k \in 1..(call.length - 1) :
            sequence[k + 1] = SetMin(TiedDestinations(sequence[k]))

(* C10, amended: on a tie for the maximum, argmax_sequence selects the tied *)
(* destination that comes first in the states list; that is the one with   *)
(* the lowest state value when the list is in increasing order, as          *)
(* build_transition_counts returns it.                                     *)
C10_FirstTiedDestination ==
    (ArgmaxReturned /\ err = NoError) =>
        \A k \in 1..(call.length - 1) :
            LET tied == MaxIndices(trans_mat[IndexOf(states, sequence[k])])
            IN  /\ sequence[k + 1] = states[SetMin(tied)]
                /\ StrictlyIncreasing(states) =>
                    sequence[k + 1] = SetMin(TiedDestinations(sequence[k]))

\* a walk over an increasing list that met a tie at its first step
C10_Witness ==
    /\ ArgmaxReturned /\ err = NoError
    /\ call.length >= 2
    /\ StrictlyIncreasing(states)
    /\ Cardinality(TiedDestinations(sequence[1])) >= 2

----------------------------------------------------------------------------
(* Vocabulary of the generator's and the scorer's calls                    *)

\* the arrays of the call do not have the shape the states list asks for
ShapeDiffers ==
    \/ Len(call.start_probs) # Len(call.states)
    \/ Len(call.trans_mat) # Len(call.states)
    \/ \E i \in 1..Len(call.trans_mat) : Len(call.trans_mat[i]) # Len(call.states)

ArgmaxCalled == pc = "returned" /\ call.op = "argmax_sequence"
SampleCalled == pc = "returned" /\ call.op = "sample_sequence"
LogprobCalled == pc = "returned" /\ call.op = "logprob_of_sequence"

(* C11: argmax_sequence called with a start_state outside the states or    *)
(* with length < 1, and sample_sequence called with length < 1 or with a   *)
(* start distribution or matrix whose shape differs from the number of     *)
(* states, fail with the error of a condition that holds (unknown state,   *)
(* invalid length, shape mismatch) and return no sequence.                 *)
C11_InvalidRequests ==
    /\ ArgmaxCalled /\ (call.start_state \notin Elements(call.states) \/ call.length < 1)
        => /\ sequence = <<>>
           /\ err \in {UnknownStateError, InvalidLengthError}
           /\ err = UnknownStateError => call.start_state \notin Elements(call.states)
           /\ err = InvalidLengthError => call.length < 1
    /\ SampleCalled /\ (call.length < 1 \/ ShapeDiffers)
        => /\ sequence = <<>>
           /\ err \in {InvalidLengthError, ShapeMismatchError}
           /\ err = InvalidLengthError => call.length < 1
           /\ err = ShapeMismatchError => ShapeDiffers

\* sample_sequence refused a start distribution one entry short, for a valid length
C11_Witness ==
    /\ SampleCalled /\ call.length >= 1
    /\ Len(call.start_probs) = Len(call.states) - 1
    /\ Len(call.trans_mat) = Len(call.states)
    /\ err = ShapeMismatchError /\ sequence = <<>>

----------------------------------------------------------------------------
(* Vocabulary of the draws: the generator's stream read position by         *)
(* position, and the outcome of a categorical draw stated by its interval  *)

\* the generator r after k draws, and the k-th uniform variate it gives
RECURSIVE RngAfter(_, _)
RngAfter(r, k) == IF k = 0 THEN r ELSE Advance(RngAfter(r, k - 1))
UniformAt(r, k) == Rat(RngAfter(r, k).state, 16)

\* the index j whose interval [p[1]+..+p[j-1], p[1]+..+p[j]) holds u
CumulativeBefore(p, j) == RSum(SubSeq(p, 1, j - 1))
Pick(p, u) ==
    CHOOSE j \in 1..Len(p) :
        /\ RLe(CumulativeBefore(p, j), u)
        /\ RLt(u, CumulativeBefore(p, j + 1))

\* a valid request to sample_sequence on a non-empty state space
SampleAccepted ==
    SampleCalled /\ call.length >= 1 /\ ~ShapeDiffers /\ call.states # <<>>

(* C12: for length >= 1 and arrays of the shape of the states list,         *)
(* sample_sequence returns exactly `length` states of the state space; it   *)
(* leaves the generator it was given exactly `length` draws further; the   *)
(* first state is the categorical draw of the first variate from the start *)
(* distribution and the k-th state the draw of the k-th variate from the   *)
(* transition row of state k-1.                                            *)
C12_SampleSequenceDraws ==
    SampleAccepted =>
        /\ err = NoError
        /\ Len(sequence) = call.length
        /\ \A k \in 1..Len(sequence) : sequence[k] \in Elements(call.states)
        /\ call.seed # -1 =>
            LET g == default_rng(call.seed)
            IN  /\ rng = RngAfter(g, call.length)
                /\ rng.draws = call.length
                /\ sequence[1] = call.states[Pick(call.start_probs, UniformAt(g, 1))]
                /\ \A k \in 2..Len(sequence) :
                    sequence[k] =
                        call.states[Pick(call.trans_mat[IndexOf(call.states, sequence[k - 1])],
                                         UniformAt(g, k))]

\* a sampled walk of three states or more that changed state, so that two
\* different rows were drawn from
C12_Witness ==
    /\ SampleAccepted /\ call.seed # -1 /\ err = NoError
    /\ Len(sequence) >= 3
    /\ \E k \in 2..(Len(sequence) - 1) : sequence[k] # sequence[1]
    /\ rng.draws = call.length

----------------------------------------------------------------------------
(* Vocabulary of the scorer *)

\* the positions of the scored sequence that hold a state outside the states
UnknownPositions == {i \in 1..Len(call.seq) : call.seq[i] \notin Elements(call.states)}

\* the probability of the walk q: its start probability times the
\* probabilities of its transitions up to position k
RECURSIVE PathProbability(_, _, _, _, _)
PathProbability(q, st, sp, m, k) ==
    IF k = 1 THEN sp[IndexOf(st, q[1])]
    ELSE RMul(PathProbability(q, st, sp, m, k - 1),
              m[IndexOf(st, q[k - 1])][IndexOf(st, q[k])])

(* C14: logprob_of_sequence returns negative infinity, and raises nothing, *)
(* for every non-empty sequence holding a state outside the states list,   *)
(* wherever that state stands and whatever the arrays hold.                *)
C14_UnknownStateIsImpossible ==
    LogprobCalled /\ UnknownPositions # {} => err = NoError /\ logprob = NegInf

\* a scored sequence whose only unknown state is in the middle
C14_Witness ==
    /\ LogprobCalled /\ Len(call.seq) = 3 /\ UnknownPositions = {2}
    /\ err = NoError /\ logprob = NegInf

(* C15: logprob_of_sequence returns exactly 0 for the empty sequence under *)
(* any model; for a non-empty sequence of states of the state space, on    *)
(* arrays of the shape of the states list, it returns the logarithm of the *)
(* start probability of the first state times the transition probabilities *)
(* of the consecutive pairs, that is the sum of their logarithms.          *)
C15_LogProbability ==
    /\ LogprobCalled /\ call.seq = <<>> => err = NoError /\ logprob = Log(ROne)
    /\ LogprobCalled /\ call.seq # <<>> /\ UnknownPositions = {} /\ ~ShapeDiffers
        => /\ err = NoError
           /\ logprob = Log(PathProbability(call.seq, call.states, call.start_probs,
                                            call.trans_mat, Len(call.seq)))

\* a walk of three known states scored with a finite, non-zero log-probability
C15_Witness ==
    /\ LogprobCalled /\ Len(call.seq) = 3 /\ UnknownPositions = {} /\ ~ShapeDiffers
    /\ call.seq[2] # call.seq[3]
    /\ err = NoError /\ logprob \notin {Log(RZero), Log(ROne)}

----------------------------------------------------------------------------
(* Vocabulary of the Dirichlet row sampler *)

RowCalled == pc = "returned" /\ call.op = "dirichlet_sample_row"
NegativeEntries == {i \in 1..Len(call.alpha_vec) : call.alpha_vec[i][1] < 0}
PositiveEntries == {i \in 1..Len(call.alpha_vec) : call.alpha_vec[i][1] > 0}

\* the Gamma variate of component i: component i is the k-th of positive
\* shape and takes the k-th variate of the stream; a shape of 0 gives 0
GammaAt(g, i) ==
    IF i \notin PositiveEntries THEN RZero
    ELSE RMul(call.alpha_vec[i],
              RInt(1 + (RngAfter(g, Cardinality({j \in PositiveEntries : j <= i})).state % 3)))
GammaTotal(g) == RSum([i \in 1..Len(call.alpha_vec) |-> GammaAt(g, i)])

(* C16: dirichlet_sample_row fails with the negative-concentration error   *)
(* whenever an entry of the vector is negative, whatever the other entries *)
(* are; it returns no vector and draws nothing from the generator.         *)
C16_NegativeConcentration ==
    RowCalled /\ NegativeEntries # {} =>
        /\ err = NegativeConcentrationError
        /\ prob_row = <<>>
        /\ rng = default_rng(call.seed)

\* a refused vector with one negative entry beside a positive and a zero one
C16_Witness ==
    /\ RowCalled /\ Cardinality(NegativeEntries) = 1 /\ PositiveEntries # {}
    /\ \E i \in 1..Len(call.alpha_vec) : call.alpha_vec[i] = RZero
    /\ err = NegativeConcentrationError /\ rng.draws = 0

(* C17: for an all-zero vector of length n dirichlet_sample_row returns    *)
(* the uniform vector [1/n, ..., 1/n] and draws nothing, whatever the      *)
(* generator's state; for a vector without negative entry and with a       *)
(* positive one it returns the Gamma(shape_i, 1) variates of the           *)
(* components divided by their sum.                                        *)
C17_DirichletRow ==
    /\ RowCalled /\ NegativeEntries = {} /\ PositiveEntries = {}
        => /\ err = NoError
           /\ prob_row = [i \in 1..Len(call.alpha_vec) |-> Rat(1, Len(call.alpha_vec))]
           /\ rng = default_rng(call.seed)
    /\ RowCalled /\ NegativeEntries = {} /\ PositiveEntries # {}
        => LET g == default_rng(call.seed)
           IN  /\ err = NoError
               /\ prob_row = [i \in 1..Len(call.alpha_vec) |->
                                RDiv(GammaAt(g, i), GammaTotal(g))]
               /\ rng = RngAfter(g, Cardinality(PositiveEntries))

\* a row drawn for a vector with a zero entry between positive ones
C17_Witness ==
    /\ RowCalled /\ NegativeEntries = {} /\ Cardinality(PositiveEntries) >= 2
    /\ \E i \in 2..(Len(call.alpha_vec) - 1) : call.alpha_vec[i] = RZero
    /\ err = NoError /\ RSum(prob_row) = ROne /\ rng.draws = 2

----------------------------------------------------------------------------
(* Vocabulary of the posterior sampler *)

PosteriorCalled == pc = "returned" /\ call.op = "sample_transition_matrix_posterior"

\* alpha plus the number of transitions from the i-th to the j-th state
ConcentrationOf(i, j) ==
    RAdd(call.alpha,
         RInt(Cardinality(PairPositions(sequences, call.states[i], call.states[j]))))

\* the Gamma variate of entry (i, j) when the rows are drawn one after the
\* other, in the order of the states list, each taking n variates of the stream
RowGammaAt(g, i, j) ==
    RMul(ConcentrationOf(i, j),
         RInt(1 + (RngAfter(g, (i - 1) * Len(call.states) + j).state % 3)))

(* C18: for alpha > 0 one call of sample_transition_matrix_posterior draws *)
(* exactly n Dirichlet rows from the one generator, one per state in the   *)
(* order of the states list; the row of state s is drawn with              *)
(* concentration alpha + count(s, d) for each destination d (count 0 when  *)
(* unobserved), so a state without outgoing transitions is drawn from      *)
(* (alpha, ..., alpha).                                                    *)
C18_PosteriorRowDraws ==
    PosteriorCalled /\ BuildSucceeded /\ IsPositive(call.alpha) /\ call.seed # -1 =>
        LET g == default_rng(call.seed)
            n == Len(call.states)
        IN  /\ err = NoError
            /\ Len(trans_mat) = n
            /\ rng = RngAfter(g, n * n)
            /\ \A i, j \in 1..n :
                trans_mat[i][j] =
                    RDiv(RowGammaAt(g, i, j), RSum([k \in 1..n |-> RowGammaAt(g, i, k)]))

\* a sampled matrix over two states or more, one with counted transitions
\* and one without any outgoing transition
C18_Witness ==
    /\ PosteriorCalled /\ BuildSucceeded /\ err = NoError /\ call.seed # -1
    /\ Len(call.states) >= 2
    /\ \E i, j \in 1..Len(call.states) : ConcentrationOf(i, j) # call.alpha
    /\ \E i \in 1..Len(call.states) :
        \A j \in 1..Len(call.states) : ConcentrationOf(i, j) = call.alpha
    /\ rng.draws = Len(call.states) * Len(call.states)

----------------------------------------------------------------------------
(* Vocabulary of the posterior-predictive simulation *)

PredictiveCalled == pc = "returned" /\ call.op = "posterior_predictive_sequences"

\* alpha > 0, length >= 1, nsamples >= 1, a non-empty batch and a start
\* distribution over the states list, which is not empty
PredictiveInputsValid ==
    /\ IsPositive(call.alpha) /\ call.length >= 1 /\ call.nsamples >= 1
    /\ sequences # <<>>
    /\ call.states # <<>>
    /\ Len(call.start_probs) = Len(call.states)
    /\ RSum(call.start_probs) = ROne

\* exactly N pairs, each a sequence of `length` states of the state space
\* with a log-probability that is finite or -inf
PredictivePairsWellFormed ==
    /\ err = NoError
    /\ Len(sims) = call.nsamples
    /\ \A k \in 1..Len(sims) :
        /\ Len(sims[k][1]) = call.length
        /\ \A i \in 1..Len(sims[k][1]) : sims[k][1][i] \in Elements(call.states)
        /\ IsFinite(sims[k][2].log_of) /\ sims[k][2].log_of[1] >= 0

C20_InvalidRequests ==
    /\ (/\ PredictiveCalled
        /\ (~IsPositive(call.alpha) \/ call.length < 1 \/ call.nsamples < 1))
        => /\ sims = <<>>
           /\ rng = PassedRng(call.seed)
           /\ err \in {InvalidAlphaError, InvalidLengthError, InvalidSampleCountError}
           /\ err = InvalidAlphaError => ~IsPositive(call.alpha)
           /\ err = InvalidLengthError => call.length < 1
           /\ err = InvalidSampleCountError => call.nsamples < 1
    /\ PosteriorCalled /\ (~IsPositive(call.alpha) \/ sequences = <<>>)
        => /\ trans_mat = <<>>
           /\ rng = PassedRng(call.seed)
           /\ err \in {InvalidAlphaError, EmptyInputError}
           /\ err = InvalidAlphaError => ~IsPositive(call.alpha)
           /\ err = EmptyInputError => sequences = <<>>

\* a request for no sample, otherwise valid, refused without a draw
C20_Witness ==
    /\ PredictiveCalled /\ IsPositive(call.alpha) /\ call.length >= 1 /\ call.nsamples = 0
    /\ call.seed # -1 /\ sequences # <<>>
    /\ err = InvalidSampleCountError /\ sims = <<>> /\ rng.draws = 0

----------------------------------------------------------------------------
(* C13: sample_sequence, sample_transition_matrix_posterior and            *)
(* posterior_predictive_sequences are functions of their inputs and of the *)
(* state of the generator they are given: a second run with the same       *)
(* inputs, from a generator in the same state, returns the same outcome    *)
(* (the same sequence, matrix, or pairs of sequence and log-probability)   *)
(* and leaves its generator in the same state as the first run left its    *)
(* own, whatever a fresh generator would have been seeded with.            *)
C13_Reproducible ==
    (/\ pc = "returned"
     /\ call.op \in {"sample_sequence", "sample_transition_matrix_posterior",
                     "posterior_predictive_sequences"}
     /\ call.seed # -1)
    => /\ replay.err = err
       /\ replay.rng = rng
       /\ call.op = "sample_sequence" => replay.sequence = sequence
       /\ call.op = "sample_transition_matrix_posterior" => replay.trans_mat = trans_mat
       /\ call.op = "posterior_predictive_sequences" => replay.sims = sims

\* two simulated pairs, returned alike by both runs, after draws were made
C13_Witness ==
    /\ PredictiveCalled /\ call.seed # -1 /\ err = NoError
    /\ Len(sims) = 2 /\ replay.sims = sims
    /\ rng.draws > 0 /\ replay.rng = rng

----------------------------------------------------------------------------
(* Vocabulary of the parser's properties: the tokens of a text stated by    *)
(* their positions, a token being a maximal run of characters that are      *)
(* neither commas nor white space                                          *)

ParseCalled == pc = "returned" /\ call.op = "parse_sequences_from_file"
RangeIsValid == call.valid_min <= call.valid_max /\ call.valid_min >= 0

NthSmallest(S, k) == CHOOSE x \in S : Cardinality({y \in S : y <= x}) = k
InOrder(S) == [k \in 1..Cardinality(S) |-> NthSmallest(S, k)]

IsSeparator(c) == c \in {",", " ", "\t", "\n", "\r"}
TokenStarts(text) ==
    {i \in 1..Len(text) : ~IsSeparator(text[i]) /\ (i = 1 \/ IsSeparator(text[i - 1]))}
TokenEnd(text, i) ==
    CHOOSE j \in i..Len(text) :
        /\ \A k \in i..j : ~IsSeparator(text[k])
        /\ j = Len(text) \/ IsSeparator(text[j + 1])
TokenAt(text, i) == SubSeq(text, i, TokenEnd(text, i))
LineNumber(text, i) == 1 + Cardinality({k \in 1..(i - 1) : text[k] = "\n"})

DecimalDigits == <<"0", "1", "2", "3", "4", "5", "6", "7", "8", "9">>
IsDecimal(token) ==
    \A i \in 1..Len(token) : \E d \in 1..10 : token[i] = DecimalDigits[d]
RECURSIVE PowerOfTen(_)
PowerOfTen(k) == IF k = 0 THEN 1 ELSE 10 * PowerOfTen(k - 1)
DigitOf(c) == (CHOOSE d \in 1..10 : DecimalDigits[d] = c) - 1
RECURSIVE DecimalSum(_, _)
DecimalSum(token, i) ==
    IF i > Len(token) THEN 0
    ELSE DigitOf(token[i]) * PowerOfTen(Len(token) - i) + DecimalSum(token, i + 1)
\* the positions where an integer of the range [lo, hi] starts
ValidStarts(text, lo, hi) ==
    {i \in TokenStarts(text) :
        /\ IsDecimal(TokenAt(text, i))
        /\ lo <= DecimalSum(TokenAt(text, i), 1)
        /\ DecimalSum(TokenAt(text, i), 1) <= hi}
ValidStartsOfLine(text, lo, hi, l) == {i \in ValidStarts(text, lo, hi) : LineNumber(text, i) = l}
RetainedLines(text, lo, hi) ==
    {l \in 1..(Len(text) + 1) : Cardinality(ValidStartsOfLine(text, lo, hi, l)) >= 2}
ValuesAt(text, starts) == [m \in 1..Len(starts) |-> DecimalSum(TokenAt(text, starts[m]), 1)]
RetainedSequences(text, lo, hi) ==
    LET lines == InOrder(RetainedLines(text, lo, hi))
    IN  [k \in 1..Len(lines) |->
            ValuesAt(text, InOrder(ValidStartsOfLine(text, lo, hi, lines[k])))]

(* C22: for a file that exists and a valid range, parse_sequences_from_file  *)
(* returns, line by line in file order, the integer tokens of the line that *)
(* lie in [valid_min, valid_max], in their order, for the lines that retain *)
(* at least 2 of them; every returned sequence has 2 states or more, all in *)
(* the range.  A zero-byte file gives the empty list, and a file with       *)
(* characters but no retained line raises the no-valid-sequences error.     *)
C22_ParsedSequences ==
    (ParseCalled /\ RangeIsValid /\ file.exists)
    => LET expected == RetainedSequences(file.chars, call.valid_min, call.valid_max)
       IN  /\ Len(file.chars) = 0 => (err = NoError /\ sequences = <<>>)
           /\ (Len(file.chars) > 0 /\ expected = <<>>)
              => (err = NoValidSequencesError /\ sequences = <<>>)
           /\ expected # <<>> => (err = NoError /\ sequences = expected)
           /\ \A k \in 1..Len(sequences) :
                /\ Len(sequences[k]) >= 2
                /\ \A i \in 1..Len(sequences[k]) :
                     /\ call.valid_min <= sequences[k][i]
                     /\ sequences[k][i] <= call.valid_max

\* the test file with 40 and 0 in it, parsed with the default range
C22_Witness ==
    /\ ParseCalled /\ file = OutOfRangeFile
    /\ call.valid_min = DefaultMinState /\ call.valid_max = DefaultMaxState
    /\ sequences = <<<<1, 2, 3, 5>>, <<6, 7, 8, 9, 10>>, <<12, 13, 14, 15>>>>

----------------------------------------------------------------------------
(* Vocabulary of the command line's properties                              *)

MainCalled == pc = "returned" /\ call.op = "main"
EffectiveMin == IF call.range_option # <<>> THEN call.range_option[1] ELSE call.valid_min
EffectiveMax == IF call.range_option # <<>> THEN call.range_option[2] ELSE call.valid_max
RangeIsInvalid == EffectiveMin > EffectiveMax \/ EffectiveMin < 0
CommandGiven == call.command # NoCommand
AlphaIsInvalid == CommandGiven /\ ~IsPositive(call.alpha)
\* the file is absent, or fewer than 2 of its lines retain 2 states
YieldsFewerThanTwo ==
    \/ ~file.exists
    \/ Len(RetainedSequences(file.chars, EffectiveMin, EffectiveMax)) < 2
NothingEstimated ==
    /\ counts = EmptyCounts /\ states = <<>> /\ trans_mat = <<>> /\ start_probs = <<>>
    /\ sims = <<>> /\ rng = NoRng /\ printed = NoPrint

(* C21: main returns 1, having estimated and sampled nothing and written no *)
(* file, whenever the state range is invalid (min_state > max_state or     *)
(* min_state < 0, --states overriding --min-state/--max-state), alpha <= 0, *)
(* or a command is given a file that yields fewer than 2 sequences; the     *)
(* range and alpha checks come before the file is read (their error is the *)
(* one reported, also when the file is missing, and nothing is parsed);     *)
(* main without a subcommand and with a valid range returns 0.              *)
C21_MainRejects ==
    MainCalled
    => /\ (RangeIsInvalid \/ AlphaIsInvalid \/ (CommandGiven /\ YieldsFewerThanTwo))
          => (exit_status = 1 /\ NothingEstimated /\ written = {})
       /\ RangeIsInvalid
          => /\ sequences = <<>>
             /\ err = IF EffectiveMin > EffectiveMax THEN MinAboveMaxError
                      ELSE NegativeMinStateError
       /\ (~RangeIsInvalid /\ AlphaIsInvalid)
          => (sequences = <<>> /\ err = InvalidAlphaError)
       /\ (~RangeIsInvalid /\ ~CommandGiven) => exit_status = 0

\* analyze with --states MaxState 1 on a path without a file
C21_Witness ==
    /\ MainCalled /\ call.command = "analyze" /\ call.range_option = <<MaxState, 1>>
    /\ ~file.exists
    /\ exit_status = 1 /\ err = MinAboveMaxError


----------------------------------------------------------------------------
(* Vocabulary of the predictive loop *)

\* what one iteration draws: a Gamma variate for each entry of the matrix,
\* then a uniform variate for each state of the sequence
DrawsPerIteration == Len(call.states) * Len(call.states) + call.length
DrawsBefore(t) == (t - 1) * DrawsPerIteration

\* the Gamma variate of entry (i, j) of the matrix of iteration t
IterationGammaAt(g, t, i, j) ==
    RMul(ConcentrationOf(i, j),
         RInt(1 + (RngAfter(g, DrawsBefore(t) + (i - 1) * Len(call.states) + j).state % 3)))

\* M_t: each row of Gamma variates divided by its sum
IterationMatrix(g, t) ==
    [i \in 1..Len(call.states) |->
        [j \in 1..Len(call.states) |->
            RDiv(IterationGammaAt(g, t, i, j),
                 RSum([k \in 1..Len(call.states) |-> IterationGammaAt(g, t, i, k)]))]]

\* the uniform variate that picks the k-th state of the sequence of iteration t
IterationUniformAt(g, t, k) ==
    UniformAt(g, DrawsBefore(t) + Len(call.states) * Len(call.states) + k)

\* the pair of iteration t is the walk drawn from (start distribution, m)
\* with the iteration's uniform variates, scored under the same m
PairDrawnFrom(g, t, m, q, lp) ==
    /\ Len(q) = call.length
    /\ q[1] = call.states[Pick(call.start_probs, IterationUniformAt(g, t, 1))]
    /\ \A k \in 2..Len(q) :
        q[k] = call.states[Pick(m[IndexOf(call.states, q[k - 1])],
                                IterationUniformAt(g, t, k))]
    /\ lp = Log(PathProbability(q, call.states, call.start_probs, m, Len(q)))

(* C23: posterior_predictive_sequences is sequential on one generator      *)
(* stream: iteration t takes the n*n Gamma variates after those of the     *)
(* earlier iterations for its matrix M_t, the next `length` uniform         *)
(* variates for its sequence, drawn from the caller's start distribution   *)
(* and M_t, and scores the sequence under that start distribution and M_t; *)
(* the generator ends nsamples * (n*n + length) draws further.             *)
C23_SequentialPredictive ==
    (/\ PredictiveCalled /\ PredictiveInputsValid /\ call.seed # -1
     /\ \E k \in 1..Len(sequences) : Len(sequences[k]) >= 2)
    => LET g == default_rng(call.seed)
       IN  /\ err = NoError
           /\ Len(sims) = call.nsamples
           /\ rng = RngAfter(g, call.nsamples * DrawsPerIteration)
           /\ \A t \in 1..Len(sims) :
                PairDrawnFrom(g, t, IterationMatrix(g, t), sims[t][1], sims[t][2])

\* two iterations over two states or more whose matrices differ, the second
\* sequence one that the first matrix would not have scored alike
C23_Witness ==
    /\ PredictiveCalled /\ PredictiveInputsValid /\ call.seed # -1 /\ err = NoError
    /\ Len(call.states) >= 2 /\ call.length = 2 /\ Len(sims) = 2
    /\ IterationMatrix(default_rng(call.seed), 1) # IterationMatrix(default_rng(call.seed), 2)
    /\ sims[2][2] # Log(PathProbability(sims[2][1], call.states, call.start_probs,
                                        IterationMatrix(default_rng(call.seed), 1), 2))

----------------------------------------------------------------------------
(* Vocabulary of the failures of the stochastic operations *)

StochasticCalled ==
    /\ pc = "returned"
    /\ call.op \in {"sample_sequence", "sample_transition_matrix_posterior",
                    "posterior_predictive_sequences"}

\* the errors raised for what the caller passed
CallerInputErrors ==
    {InvalidAlphaError, InvalidLengthError, InvalidSampleCountError, EmptyInputError,
     ShapeMismatchError}

(* C24: when sample_sequence, sample_transition_matrix_posterior or        *)
(* posterior_predictive_sequences fails with a caller-input error (alpha,  *)
(* length, sample count, empty input, shape of the start distribution or   *)
(* matrix), the generator the caller passed is in the state it had before  *)
(* the call: nothing was drawn from it.                                    *)
C24_EagerValidation ==
    StochasticCalled /\ err \in CallerInputErrors => rng = PassedRng(call.seed)

----------------------------------------------------------------------------
(* Vocabulary of the estimator's post-condition *)

MatrixCalled == pc = "returned" /\ call.op = "transition_matrix_from_counts"

(* C25: for alpha > 0 the row-sum and non-negativity assertions of         *)
(* transition_matrix_from_counts never fail, whatever the counts and the   *)
(* states list, a list without a destination of the counts included.       *)
C25_PostConditionNeverFails ==
    MatrixCalled /\ IsPositive(call.alpha)
        => err \notin {RowSumFailure, NegativeProbabilityFailure}

----------------------------------------------------------------------------
(* Vocabulary of the downstream operations *)

DownstreamOps ==
    {"transition_matrix_from_counts", "empirical_start_distribution", "argmax_sequence",
     "sample_sequence", "logprob_of_sequence", "sample_transition_matrix_posterior",
     "posterior_predictive_sequences"}

\* the operations that are given a matrix and a start distribution
ModelReadingOps == {"argmax_sequence", "sample_sequence", "logprob_of_sequence"}

(* C26: no call of transition_matrix_from_counts,                          *)
(* empirical_start_distribution, argmax_sequence, sample_sequence,         *)
(* logprob_of_sequence, sample_transition_matrix_posterior or              *)
(* posterior_predictive_sequences changes the counts (no key added, no     *)
(* count changed), the states list or the sequences, nor the matrix and    *)
(* the start distribution of the model it was given.                       *)
C26_InputsReadOnly ==
    [][call'.op \in DownstreamOps =>
        /\ counts' = counts
        /\ states' = states
        /\ sequences' = sequences
        /\ call'.op \in ModelReadingOps =>
            trans_mat' = trans_mat /\ start_probs' = start_probs]_vars

\* a matrix estimated for a states list with a state that has no entry in
\* the counts, which still has none
C26_Witness ==
    /\ MatrixCalled /\ err = NoError
    /\ counts # EmptyCounts
    /\ \E i \in 1..Len(call.states) : call.states[i] \notin DOMAIN counts
    /\ counts = build_transition_counts(sequences).counts

----------------------------------------------------------------------------
(* C27: sample_sequence, sample_transition_matrix_posterior and            *)
(* posterior_predictive_sequences take all their randomness from the       *)
(* generator the caller passed, however they are called: two runs of a     *)
(* call, with a generator or without one, differ in nothing but what the   *)
(* passed generator supplies, so they return the same outcome whatever an  *)
(* implicit source of randomness would supply.                             *)
C27_OnlyPassedGenerator ==
    StochasticCalled
    => /\ replay.err = err
       /\ \/ call.op = "sample_sequence" /\ replay.sequence = sequence
          \/ call.op = "sample_transition_matrix_posterior" /\ replay.trans_mat = trans_mat
          \/ call.op = "posterior_predictive_sequences" /\ replay.sims = sims

----------------------------------------------------------------------------
(* Vocabulary of the fitted model *)

FitCalled == pc \in {"model", "failed"} /\ call.op = "fit"

\* the number of transitions of the batch from the i-th to the j-th state
Observed(i, j) == Cardinality(PairPositions(sequences, states[i], states[j]))
ObservedFrom(i) == RSum([j \in 1..Len(states) |-> RInt(Observed(i, j))])

\* a sequence scored on the model that was fitted to the batch
ScoredOnFit ==
    /\ LogprobCalled /\ counts # EmptyCounts
    /\ call.states = states /\ call.trans_mat = trans_mat /\ call.start_probs = start_probs

====
